---- MODULE Spec2Model ----
(***************************************************************************)
(* Dialectic subnet: dispute manager (src/challenge.py), validator         *)
(* consensus engine (src/consensus.py), the validator neuron's handlers    *)
(* (src/neurons/validator.py) and the Merkle tree of a reasoning tree      *)
(* (src/merkle.py).                                                        *)
(*                                                                         *)
(* Time is counted in ticks of two hours (every window of the program is   *)
(* an even number of hours).  Stakes are whole tokens.  Payouts and         *)
(* reputation deltas are kept in units of 1/10000, confidences in units of *)
(* 1/100, calibration scores in units of 1/100.  A hash is the sequence of *)
(* the tokens of what was hashed, between the marks of the hash function.  *)
(***************************************************************************)
EXTENDS Integers, Sequences, FiniteSets, TLC

VARIABLES
    now,              \* datetime.utcnow(), in ticks
    disputes,         \* ChallengeManager.disputes: dispute id -> Dispute
    tree_challenges,  \* ChallengeManager.tree_challenges: task id -> list of ids
    dispute_counter,  \* ChallengeManager.dispute_counter
    validators,       \* ValidatorConsensus.validators: hotkey -> ValidatorState
    active_disputes,  \* ValidatorConsensus.active_disputes: id -> in-flight record
    dispute_votes,    \* ValidatorConsensus.dispute_votes: id -> list of Vote
    epoch_start,      \* ValidatorConsensus.epoch_start
    escalation_steps, \* history: escalation steps done on an id since its assignment
    merkle,           \* a ReasoningMerkleTree: its root, nodes and proofs
    reasoning_nodes   \* history: the list the Merkle tree was last built from

vars == <<now, disputes, tree_challenges, dispute_counter,
          validators, active_disputes, dispute_votes, epoch_start,
          escalation_steps, merkle, reasoning_nodes>>

cmVars == <<disputes, tree_challenges, dispute_counter>>
ceVars == <<validators, active_disputes, dispute_votes, epoch_start,
           escalation_steps>>
mtVars == <<merkle, reasoning_nodes>>

----------------------------------------------------------------------------
(* Bounds of the model *)

MaxTime == 3
MaxDisputes == 2
MaxHistory == 1
MaxCases == 1
MaxEscalations == 2
MaxDays == 21
MaxUpdates == 2
MaxNodes == 5

\* Python's None, for a string, a time and a dispute id
None == "None"
\* hours per tick of the clock, and timedelta(hours=h) in ticks
TickHours == 1 + 1
Hours(h) == h \div TickHours
NoTime == 0 - 1000
NoId == <<>>

----------------------------------------------------------------------------
(* Constants of src/challenge.py and src/protocol.py *)

CHALLENGE_WINDOW_HOURS == 6
DEFENSE_WINDOW_HOURS == 2
\* MIN_CHALLENGE_STAKE_RATIO = 0.1, in percent
MIN_CHALLENGE_STAKE_RATIO == 10
\* PROPOSER_SLASH_RATE = 0.30 and CHALLENGER_SLASH_RATE = 0.50, in percent
PROPOSER_SLASH_RATE == 30
CHALLENGER_SLASH_RATE == 50

PENDING_DEFENSE == "pending_defense"
PENDING_ADJUDICATION == "pending_adjudication"
RESOLVED == "resolved"
EXPIRED == "expired"
DisputeStatus == {PENDING_DEFENSE, PENDING_ADJUDICATION, RESOLVED, EXPIRED}

CHALLENGE_UPHELD == "challenge_upheld"
CHALLENGE_REJECTED == "challenge_rejected"
PARTIAL == "partial"
ABSTAIN == "abstain"
\* declaration order of the enum
VerdictOrder == <<CHALLENGE_UPHELD, CHALLENGE_REJECTED, PARTIAL, ABSTAIN>>
Verdict == {VerdictOrder[i] : i \in 1..Len(VerdictOrder)}

AttackType == {"factual_error", "logical_fallacy", "missing_context",
               "contradiction", "outdated"}

\* ATTACK_MULTIPLIERS, in tenths
ATTACK_MULTIPLIERS ==
    [a \in AttackType |->
        CASE a = "factual_error" -> 20
          [] a = "logical_fallacy" -> 25
          [] a = "missing_context" -> 15
          [] a = "contradiction" -> 30
          [] a = "outdated" -> 15]

----------------------------------------------------------------------------
(* Inputs *)

Tasks == {"t1", "t2"}
NodeIdInputs == {"n0", "n1", "n9"}
TreeStakes == {100}
ChallengeStakes == {9, 10}
AttackInputs == {"logical_fallacy"}
DefenseInputs == {"refute"}
\* confidences handed to resolve_dispute, in 1/100
ConfidenceInputs == {80}

\* the reasoning tree a proposer submits for a task: root n0, one node n1
TreeOf(task, stake, submitted) ==
    [task_id |-> task, root |-> "n0", nodes |-> <<"n1">>, stake |-> stake,
     proposer_hotkey |-> "p", submitted_at |-> submitted]

\* submitted_at of the trees handed in: absent, four hours before the first
\* instant of the model, or that first instant
SubmittedAtInputs == {NoTime, 0 - 2, 0}

TreeInputs ==
    {TreeOf(t, s, sub) : t \in Tasks, s \in TreeStakes, sub \in SubmittedAtInputs}

\* a ChallengeSubmission; the dispute manager reads the task id of the tree,
\* never the one of the challenge
ChallengeInputs ==
    [target_node : NodeIdInputs, attack_type : AttackInputs,
     stake : ChallengeStakes, challenger_hotkey : {"c"}]

\* f"disp_{tree.task_id}_{self.dispute_counter}"
DisputeId(task, n) == <<task, n>>
\* the ids handed to the operations: those of the stored disputes, and one
\* that no dispute has (the counter starts at 1)
UnknownId == DisputeId("t1", 0)
DisputeIdInputs == (DOMAIN disputes) \cup {UnknownId}

Min(a, b) == IF a <= b THEN a ELSE b
Max(a, b) == IF a >= b THEN a ELSE b
InSeq(x, s) == \E i \in 1..Len(s) : s[i] = x
SeqToSet(s) == {s[i] : i \in 1..Len(s)}

----------------------------------------------------------------------------
(* ReasoningMerkleTree, src/merkle.py *)

\* an Optional value: None is the empty sequence, a value x is <<x>>
Some(x) == <<x>>
NoNode == <<>>
NoProof == <<>>

\* hashlib.sha256(data).hexdigest() of a sequence of tokens: the tokens
\* between the marks of the function, so that different data have different
\* hashes and a hash is no prefix of another one
hash_data(data) == <<"sha256(">> \o data \o <<")">>

\* json.dumps(node_data, sort_keys=True, separators=(',', ':')), as tokens; a
\* reasoning node is modelled by its id and its claim (node_type, evidence
\* and children are hashed the same way)
canonical(node_data) == <<"{", "claim", node_data.claim, "id", node_data.id, "}">>

hash_node(node_data) == hash_data(canonical(node_data))

combine_hashes(left, right) == hash_data(left \o right)

\* MerkleNode(hash=..., data_id=...) of a leaf
Leaf(node_data) ==
    [hash |-> hash_node(node_data), data_id |-> node_data.id,
     left |-> NoNode, right |-> NoNode]

\* MerkleNode(hash=parent_hash, left=left, right=right)
Parent(left, right) ==
    [hash |-> combine_hashes(left.hash, right.hash), data_id |-> None,
     left |-> Some(left), right |-> Some(right)]

\* ReasoningMerkleTree()
NewMerkleTree == [root |-> NoNode, nodes |-> <<>>, proofs |-> <<>>]

\* a tree whose odd levels lose their last node
RECURSIVE build_tree_without_padding(_)
build_tree_without_padding(nodes) ==
    IF Len(nodes) = 1 THEN nodes[1]
    ELSE build_tree_without_padding(
            [i \in 1..(Len(nodes) \div 2) |-> Parent(nodes[2 * i - 1], nodes[2 * i])])

\* _build_tree
RECURSIVE build_tree(_)
build_tree(nodes) ==
    IF Len(nodes) = 1 THEN nodes[1]
    ELSE LET padded == IF Len(nodes) % 2 = 1
                       THEN Append(nodes, nodes[Len(nodes)]) ELSE nodes
         IN  build_tree([i \in 1..(Len(padded) \div 2) |->
                            Parent(padded[2 * i - 1], padded[2 * i])])

\* find_and_prove of _generate_proof on a node that is not None: whether the
\* target was found below it, and what the search appended to the proof
RECURSIVE find_and_prove(_, _, _)
find_and_prove(node, target, node_id) ==
    IF node.hash = target /\ node.data_id = node_id
    THEN [found |-> TRUE, proof |-> <<>>]
    ELSE LET in_left == IF node.left = NoNode THEN [found |-> FALSE, proof |-> <<>>]
                        ELSE find_and_prove(node.left[1], target, node_id)
         IN  IF in_left.found
             THEN [found |-> TRUE,
                   proof |-> IF node.right # NoNode
                             THEN Append(in_left.proof, <<node.right[1].hash, "right">>)
                             ELSE in_left.proof]
             ELSE LET in_right ==
                          IF node.right = NoNode THEN [found |-> FALSE, proof |-> <<>>]
                          ELSE find_and_prove(node.right[1], target, node_id)
                  IN  IF in_right.found
                      THEN [found |-> TRUE,
                            proof |-> IF node.left # NoNode
                                      THEN Append(in_right.proof,
                                                  <<node.left[1].hash, "left">>)
                                      ELSE in_right.proof]
                      ELSE [found |-> FALSE, proof |-> <<>>]

\* _generate_proof in a tree of the given root and nodes
generate_proof(root, nodes, node_id) ==
    IF node_id \notin DOMAIN nodes THEN <<>>
    ELSE IF root = NoNode THEN <<>>
    ELSE find_and_prove(root[1], nodes[node_id], node_id).proof

\* the hash of the last node of the list that has the id
last_hash(list, id) ==
    LET last == CHOOSE i \in 1..Len(list) :
                    /\ list[i].id = id
                    /\ \A j \in (i + 1)..Len(list) : list[j].id # id
    IN  hash_node(list[last])

\* build_from_reasoning_tree: the tree object it leaves
build_from_reasoning_tree(tree, list) ==
    IF Len(list) = 0 THEN tree
    ELSE LET ids == {list[i].id : i \in 1..Len(list)}
             nodes == [id \in (DOMAIN tree.nodes) \cup ids |->
                          IF id \in ids THEN last_hash(list, id) ELSE tree.nodes[id]]
             root == Some(build_tree([i \in 1..Len(list) |-> Leaf(list[i])]))
         IN  [root |-> root, nodes |-> nodes,
              proofs |-> [id \in DOMAIN nodes |-> generate_proof(root, nodes, id)]]

\* build_from_reasoning_tree: what it returns
merkle_root(tree, list) ==
    IF Len(list) = 0 THEN hash_data(<<>>)
    ELSE build_from_reasoning_tree(tree, list).root[1].hash

\* get_proof: self.proofs.get(node_id), an Optional list
get_proof(tree, node_id) ==
    IF node_id \in DOMAIN tree.proofs THEN Some(tree.proofs[node_id])
    ELSE NoProof

\* the hash the loop of verify_proof ends with
RECURSIVE current_hash(_, _, _)
current_hash(node_data, proof, n) ==
    IF n = 0 THEN hash_node(node_data)
    ELSE IF proof[n][2] = "left"
    THEN combine_hashes(proof[n][1], current_hash(node_data, proof, n - 1))
    ELSE combine_hashes(current_hash(node_data, proof, n - 1), proof[n][1])

\* verify_proof on an Optional proof: the boolean it returns, or the
\* exception that iterating over None raises
verify_proof(node_data, proof, root_hash) ==
    IF proof = NoProof
    THEN [raises |-> "TypeError", value |-> FALSE]
    ELSE [raises |-> None,
          value |-> current_hash(node_data, proof[1], Len(proof[1])) = root_hash]

\* get_root, for a tree that has a root
get_root(tree) == tree.root[1].hash

----------------------------------------------------------------------------
(* ChallengeManager, src/challenge.py *)

\* Dispute(...) as create_dispute builds it; the dataclass defaults fill
\* defense, verdict, the payouts and the reputation deltas
NewDispute(id, challenge, tree) ==
    [dispute_id |-> id,
     task_id |-> tree.task_id,
     target_node_id |-> challenge.target_node,
     proposer_hotkey |-> tree.proposer_hotkey,
     challenger_hotkey |-> challenge.challenger_hotkey,
     proposer_stake |-> tree.stake,
     challenger_stake |-> challenge.stake,
     attack_type |-> challenge.attack_type,
     defense |-> None,
     defense_deadline |-> now + Hours(DEFENSE_WINDOW_HOURS),
     status |-> PENDING_DEFENSE,
     verdict |-> None,
     proposer_payout |-> 0,
     challenger_payout |-> 0,
     proposer_reputation_delta |-> 0,
     challenger_reputation_delta |-> 0]

\* node_ids = [tree.root.id] + [n.id for n in tree.nodes]
node_ids(tree) == <<tree.root>> \o tree.nodes

\* mutant: the window closes at the boundary instant itself (>= for >)
window_closed_at_boundary(tree) ==
    /\ tree.submitted_at # NoTime
    /\ now >= tree.submitted_at + Hours(CHALLENGE_WINDOW_HOURS)

\* if tree.submitted_at: ... if datetime.utcnow() > window_end
window_closed(tree) ==
    /\ tree.submitted_at # NoTime
    /\ now > tree.submitted_at + Hours(CHALLENGE_WINDOW_HOURS)

\* mutant: only a dispute still waiting for its defense counts as active
has_active_challenge_pending_only(challenge, tree) ==
    LET task_disputes == tree_challenges[tree.task_id]
    IN  \E i \in 1..Len(task_disputes) :
            LET dispute_id == task_disputes[i]
            IN  /\ dispute_id \in DOMAIN disputes
                /\ disputes[dispute_id].target_node_id = challenge.target_node
                /\ disputes[dispute_id].status = PENDING_DEFENSE

\* the loop over self.tree_challenges.get(tree.task_id, [])
has_active_challenge(challenge, tree) ==
    LET task_disputes == tree_challenges[tree.task_id]
    IN  \E i \in 1..Len(task_disputes) :
            LET dispute_id == task_disputes[i]
            IN  /\ dispute_id \in DOMAIN disputes
                /\ disputes[dispute_id].target_node_id = challenge.target_node
                /\ disputes[dispute_id].status # RESOLVED

\* mutant: the stake is checked before the target node
validate_challenge_stake_first(challenge, tree) ==
    IF challenge.stake * 100 < tree.stake * MIN_CHALLENGE_STAKE_RATIO
    THEN [ok |-> FALSE, reason |-> "stake_too_low"]
    ELSE IF ~InSeq(challenge.target_node, node_ids(tree))
    THEN [ok |-> FALSE, reason |-> "node_not_found"]
    ELSE IF window_closed(tree)
    THEN [ok |-> FALSE, reason |-> "window_closed"]
    ELSE IF has_active_challenge(challenge, tree)
    THEN [ok |-> FALSE, reason |-> "duplicate_challenge"]
    ELSE [ok |-> TRUE, reason |-> None]

validate_challenge(challenge, tree) ==
    IF ~InSeq(challenge.target_node, node_ids(tree))
    THEN [ok |-> FALSE, reason |-> "node_not_found"]
    ELSE IF challenge.stake * 100 < tree.stake * MIN_CHALLENGE_STAKE_RATIO
    THEN [ok |-> FALSE, reason |-> "stake_too_low"]
    ELSE IF window_closed(tree)
    THEN [ok |-> FALSE, reason |-> "window_closed"]
    ELSE IF has_active_challenge(challenge, tree)
    THEN [ok |-> FALSE, reason |-> "duplicate_challenge"]
    ELSE [ok |-> TRUE, reason |-> None]

\* a sweep that sets the outcome of a dispute and leaves its status alone
resolve_no_defense_keeps_status(dispute) ==
    [dispute EXCEPT
        !.verdict = CHALLENGE_UPHELD,
        !.proposer_reputation_delta = 0 - 1500,
        !.challenger_reputation_delta = 500]

\* a sweep that slashes the proposer at the plain rate of 30 %
resolve_no_defense_plain_slash(dispute) ==
    LET multiplier == ATTACK_MULTIPLIERS[dispute.attack_type]
        base_reward == dispute.challenger_stake * multiplier * 1000
        proposer_slash == dispute.proposer_stake * PROPOSER_SLASH_RATE * 100
    IN  [dispute EXCEPT
            !.status = RESOLVED,
            !.verdict = CHALLENGE_UPHELD,
            !.challenger_payout = base_reward + proposer_slash,
            !.proposer_payout = 0 - proposer_slash,
            !.proposer_reputation_delta = 0 - 1500,
            !.challenger_reputation_delta = 500]

\* _resolve_no_defense: status, verdict, payouts in 1/10000
resolve_no_defense(dispute) ==
    LET multiplier == ATTACK_MULTIPLIERS[dispute.attack_type]
        base_reward == dispute.challenger_stake * multiplier * 1000
        \* PROPOSER_SLASH_RATE * 1.5 = 0.45
        proposer_slash == Min(dispute.proposer_stake * PROPOSER_SLASH_RATE * 150,
                              dispute.proposer_stake * 10000)
    IN  [dispute EXCEPT
            !.status = RESOLVED,
            !.verdict = CHALLENGE_UPHELD,
            !.challenger_payout = base_reward + proposer_slash,
            !.proposer_payout = 0 - proposer_slash,
            !.proposer_reputation_delta = 0 - 1500,
            !.challenger_reputation_delta = 500]

\* _resolve_challenger_wins
resolve_challenger_wins(dispute, confidence) ==
    LET multiplier == ATTACK_MULTIPLIERS[dispute.attack_type]
        base_reward == dispute.challenger_stake * multiplier * confidence * 10
        proposer_slash == dispute.proposer_stake * PROPOSER_SLASH_RATE * confidence
    IN  [dispute EXCEPT
            !.challenger_payout = base_reward + proposer_slash,
            !.proposer_payout = 0 - proposer_slash,
            !.proposer_reputation_delta = 0 - 10 * confidence,
            !.challenger_reputation_delta = 5 * confidence]

\* mutant: the challenger is slashed by the attack multiplier of the stake
resolve_proposer_wins_slash_by_multiplier(dispute, confidence) ==
    LET multiplier == ATTACK_MULTIPLIERS[dispute.attack_type]
        challenger_slash == dispute.challenger_stake * multiplier * 10 * confidence
        proposer_recovery == (challenger_slash * 6) \div 10
    IN  [dispute EXCEPT
            !.challenger_payout = 0 - challenger_slash,
            !.proposer_payout = proposer_recovery,
            !.proposer_reputation_delta = 2 * confidence,
            !.challenger_reputation_delta = 0 - 5 * confidence]

\* _resolve_proposer_wins; proposer_recovery = challenger_slash * 0.6
resolve_proposer_wins(dispute, confidence) ==
    LET challenger_slash == dispute.challenger_stake * CHALLENGER_SLASH_RATE * confidence
        proposer_recovery == (challenger_slash * 6) \div 10
    IN  [dispute EXCEPT
            !.challenger_payout = 0 - challenger_slash,
            !.proposer_payout = proposer_recovery,
            !.proposer_reputation_delta = 2 * confidence,
            !.challenger_reputation_delta = 0 - 5 * confidence]

\* a partial verdict that does not charge the challenger 20 % of the stake
resolve_partial_without_fee(dispute, confidence) ==
    LET multiplier == ATTACK_MULTIPLIERS[dispute.attack_type]
        challenger_reward == dispute.challenger_stake * multiplier * 5 * confidence
        proposer_slash == (dispute.proposer_stake * PROPOSER_SLASH_RATE * 5 * confidence) \div 10
    IN  [dispute EXCEPT
            !.challenger_payout = challenger_reward + proposer_slash,
            !.proposer_payout = 0 - proposer_slash,
            !.proposer_reputation_delta = 0 - 3 * confidence,
            !.challenger_reputation_delta = confidence]

\* _resolve_partial; partial_factor = 0.5
resolve_partial(dispute, confidence) ==
    LET multiplier == ATTACK_MULTIPLIERS[dispute.attack_type]
        challenger_reward == dispute.challenger_stake * multiplier * 5 * confidence
        proposer_slash == (dispute.proposer_stake * PROPOSER_SLASH_RATE * 5 * confidence) \div 10
    IN  [dispute EXCEPT
            !.challenger_payout = challenger_reward + proposer_slash
                                  - dispute.challenger_stake * 2000,
            !.proposer_payout = 0 - proposer_slash,
            !.proposer_reputation_delta = 0 - 3 * confidence,
            !.challenger_reputation_delta = confidence]

\* the dispute as resolve_dispute leaves it
resolved_dispute(dispute, verdict, confidence) ==
    LET d == [dispute EXCEPT !.status = RESOLVED, !.verdict = verdict]
    IN  IF verdict = CHALLENGE_UPHELD THEN resolve_challenger_wins(d, confidence)
        ELSE IF verdict = CHALLENGE_REJECTED THEN resolve_proposer_wins(d, confidence)
        ELSE IF verdict = PARTIAL THEN resolve_partial(d, confidence)
        ELSE d

\* mutant: a dispute expires at its deadline instant (>= for >)
defense_expired_at_deadline(dispute) ==
    /\ dispute.status = PENDING_DEFENSE
    /\ dispute.defense_deadline # NoTime
    /\ now >= dispute.defense_deadline

\* mutant: the sweep does not look at the status of the dispute
defense_expired_whatever_the_status(dispute) ==
    /\ dispute.defense_deadline # NoTime
    /\ now > dispute.defense_deadline

\* the test of check_expired_defenses on one dispute
defense_expired(dispute) ==
    /\ dispute.status = PENDING_DEFENSE
    /\ dispute.defense_deadline # NoTime
    /\ now > dispute.defense_deadline

\* ids in the iteration order of self.disputes (insertion order = counter)
RECURSIVE ids_in_order(_)
ids_in_order(n) ==
    IF n = 0 THEN <<>>
    ELSE LET rest == ids_in_order(n - 1)
             here == {id \in DOMAIN disputes : id[2] = n}
         IN  IF here = {} THEN rest ELSE rest \o <<CHOOSE id \in here : TRUE>>

expired_ids ==
    SelectSeq(ids_in_order(dispute_counter), LAMBDA id : defense_expired(disputes[id]))

----------------------------------------------------------------------------
(* Operations of the dispute manager *)

\* the clock advances
Tick ==
    /\ now < MaxTime
    /\ now' = now + 1
    /\ UNCHANGED <<cmVars, ceVars, mtVars>>

\* ChallengeManager.validate_challenge called on its own, on any tree
ValidateChallengeOp(challenge, tree) ==
    /\ UNCHANGED <<now, cmVars, ceVars, mtVars>>
    /\ validate_challenge(challenge, tree).ok \in BOOLEAN

ValidateChallenge ==
    \E challenge \in ChallengeInputs, tree \in TreeInputs :
        ValidateChallengeOp(challenge, tree)

\* mutant: the number in the identifier is not taken from the counter
create_dispute_first_id(challenge, tree) ==
    LET dispute_id == DisputeId(tree.task_id, 1)
    IN  /\ dispute_counter' = dispute_counter + 1
        /\ disputes' = (dispute_id :> NewDispute(dispute_id, challenge, tree))
                       @@ disputes
        /\ tree_challenges' =
              [tree_challenges EXCEPT ![tree.task_id] = Append(@, dispute_id)]

\* ChallengeManager.create_dispute
create_dispute(challenge, tree) ==
    LET dispute_id == DisputeId(tree.task_id, dispute_counter + 1)
    IN  /\ dispute_counter' = dispute_counter + 1
        /\ disputes' = (dispute_id :> NewDispute(dispute_id, challenge, tree))
                       @@ disputes
        /\ tree_challenges' =
              [tree_challenges EXCEPT ![tree.task_id] = Append(@, dispute_id)]

\* Validator.handle_challenge on the tree the validator holds for the task:
\* validate_challenge, then create_dispute when the challenge is valid
HandleChallengeOp(challenge, tree) ==
    IF ~validate_challenge(challenge, tree).ok
    THEN UNCHANGED <<now, cmVars, ceVars, mtVars>>
    ELSE /\ dispute_counter < MaxDisputes
         /\ create_dispute(challenge, tree)
         /\ UNCHANGED <<now, ceVars, mtVars>>

HandleChallenge ==
    \E challenge \in ChallengeInputs, tree \in TreeInputs :
        HandleChallengeOp(challenge, tree)

\* mutant: the status of the dispute is not looked at
submit_defense_any_status(dispute_id) ==
    IF dispute_id \notin DOMAIN disputes
    THEN [ok |-> FALSE, reason |-> "not_found"]
    ELSE IF now > disputes[dispute_id].defense_deadline
    THEN [ok |-> FALSE, reason |-> "deadline_exceeded"]
    ELSE [ok |-> TRUE, reason |-> None]

\* ChallengeManager.submit_defense: what it returns
submit_defense(dispute_id) ==
    IF dispute_id \notin DOMAIN disputes
    THEN [ok |-> FALSE, reason |-> "not_found"]
    ELSE IF disputes[dispute_id].status # PENDING_DEFENSE
    THEN [ok |-> FALSE, reason |-> "invalid_state"]
    ELSE IF now > disputes[dispute_id].defense_deadline
    THEN [ok |-> FALSE, reason |-> "deadline_exceeded"]
    ELSE [ok |-> TRUE, reason |-> None]

SubmitDefenseOp(dispute_id, defense) ==
    LET r == submit_defense(dispute_id)
    IN  /\ IF r.ok
           THEN disputes' = [disputes EXCEPT
                                ![dispute_id].defense = defense,
                                ![dispute_id].status = PENDING_ADJUDICATION]
           ELSE UNCHANGED disputes
        /\ UNCHANGED <<now, tree_challenges, dispute_counter, ceVars, mtVars>>

SubmitDefense ==
    \E dispute_id \in DisputeIdInputs, defense \in DefenseInputs :
        SubmitDefenseOp(dispute_id, defense)

\* ChallengeManager.check_expired_defenses
CheckExpiredDefenses ==
    /\ disputes' = [id \in DOMAIN disputes |->
                        IF defense_expired(disputes[id])
                        THEN resolve_no_defense(disputes[id])
                        ELSE disputes[id]]
    /\ UNCHANGED <<now, tree_challenges, dispute_counter, ceVars, mtVars>>

\* ChallengeManager.resolve_dispute
ResolveDisputeOp(dispute_id, verdict, confidence) ==
    IF dispute_id \notin DOMAIN disputes
    THEN UNCHANGED <<now, cmVars, ceVars, mtVars>>
    ELSE /\ disputes' = [disputes EXCEPT
                            ![dispute_id] = resolved_dispute(@, verdict, confidence)]
         /\ UNCHANGED <<now, tree_challenges, dispute_counter, ceVars, mtVars>>

ResolveDispute ==
    \E dispute_id \in DisputeIdInputs, verdict \in Verdict,
       confidence \in ConfidenceInputs :
        ResolveDisputeOp(dispute_id, verdict, confidence)

----------------------------------------------------------------------------
(* Specification of the dispute manager behind the validator's handlers *)

Init ==
    /\ now = 0
    /\ disputes = <<>>
    /\ tree_challenges = [t \in Tasks |-> <<>>]
    /\ dispute_counter = 0
    /\ validators = <<>>
    /\ active_disputes = <<>>
    /\ dispute_votes = <<>>
    /\ epoch_start = 0
    /\ escalation_steps = <<>>
    /\ merkle = NewMerkleTree
    /\ reasoning_nodes = <<>>

Next ==
    \/ Tick
    \/ ValidateChallenge
    \/ HandleChallenge
    \/ SubmitDefense
    \/ CheckExpiredDefenses
    \/ ResolveDispute

Spec == Init /\ [][Next]_vars

----------------------------------------------------------------------------
(* Specification of the payouts: one dispute, created at the first instant
   from stakes and attack kinds of a wider range, is resolved by verdicts of
   a wider range of confidences or by the sweep *)

PayoutTreeStakes == {100, 250}
PayoutChallengeStakes == {30, 40}
\* confidences handed to resolve_dispute, in 1/100
PayoutConfidenceInputs == {0, 50, 80, 100}

PayoutTreeInputs == {TreeOf("t1", stake, 0) : stake \in PayoutTreeStakes}

PayoutChallengeInputs ==
    {[target_node |-> "n0", attack_type |-> a, stake |-> k, challenger_hotkey |-> "c"] :
        a \in AttackType, k \in PayoutChallengeStakes}

\* the state after handle_challenge has accepted the first challenge
InitPayout ==
    /\ now = 0
    /\ \E challenge \in PayoutChallengeInputs, tree \in PayoutTreeInputs :
          /\ challenge.stake * 100 >= tree.stake * MIN_CHALLENGE_STAKE_RATIO
          /\ disputes = (DisputeId("t1", 1) :> NewDispute(DisputeId("t1", 1), challenge, tree))
    /\ tree_challenges = [t \in Tasks |-> IF t = "t1" THEN <<DisputeId("t1", 1)>> ELSE <<>>]
    /\ dispute_counter = 1
    /\ validators = <<>>
    /\ active_disputes = <<>>
    /\ dispute_votes = <<>>
    /\ epoch_start = 0
    /\ escalation_steps = <<>>
    /\ merkle = NewMerkleTree
    /\ reasoning_nodes = <<>>

ResolvePayout ==
    \E dispute_id \in DOMAIN disputes, verdict \in Verdict,
       confidence \in PayoutConfidenceInputs :
        ResolveDisputeOp(dispute_id, verdict, confidence)

NextPayout ==
    \/ Tick
    \/ SubmitDefense
    \/ CheckExpiredDefenses
    \/ ResolvePayout

SpecPayout == InitPayout /\ [][NextPayout]_vars

----------------------------------------------------------------------------
(* Constants of src/consensus.py *)

ADJUDICATION_WINDOW_HOURS == 4
ESCALATION_WINDOW_HOURS == 6
\* CONSENSUS_THRESHOLD = 0.6, in 1/10000
CONSENSUS_THRESHOLD == 6000
\* CALIBRATION_DECAY_PER_EPOCH = 0.02, in 1/100
CALIBRATION_DECAY_PER_EPOCH == 2

SCOUT == "scout"
AUDITOR == "auditor"
ARBITER == "arbiter"
ValidatorTier == {SCOUT, AUDITOR, ARBITER}

\* float('inf')
INF == 0 - 1

\* min_calibration in 1/100
TIER_CONFIG ==
    [t \in ValidatorTier |->
        CASE t = SCOUT ->
                [stake_required |-> 100, max_cases_per_epoch |-> 10,
                 weight_multiplier |-> 1, min_calibration |-> 50]
          [] t = AUDITOR ->
                [stake_required |-> 500, max_cases_per_epoch |-> 50,
                 weight_multiplier |-> 2, min_calibration |-> 70]
          [] t = ARBITER ->
                [stake_required |-> 2000, max_cases_per_epoch |-> INF,
                 weight_multiplier |-> 5, min_calibration |-> 85]]

----------------------------------------------------------------------------
(* Inputs of the consensus engine *)

Hotkeys == {"v1", "v2"}
\* the order in which the registry and the sets of hotkeys are walked
HotkeyOrder == <<"v1", "v2">>
StakeInputs == {50, 100, 2000}
TierInputs == {SCOUT, ARBITER}
NumValidatorsInputs == {1, 5}
VoteVerdictInputs == {CHALLENGE_UPHELD, CHALLENGE_REJECTED}
\* confidences of the votes, in 1/100; submit_vote clips 150 to 100
VoteConfidenceInputs == {150}
\* the dispute id handed to the consensus engine
AdjudicationId == DisputeId("t1", 1)
AdjudicationIdInputs == {AdjudicationId, UnknownId}

----------------------------------------------------------------------------
(* ValidatorState and ValidatorConsensus, src/consensus.py *)

\* ValidatorState(hotkey, tier, stake) with the defaults of the dataclass;
\* calibration_score in 1/100
NewValidator(hotkey, tier, stake) ==
    [hotkey |-> hotkey, tier |-> tier, stake |-> stake,
     calibration_score |-> 100,
     verdicts_submitted |-> 0, correct_verdicts |-> 0, cases_this_epoch |-> 0,
     last_active |-> now, tier_start_date |-> now,
     slashing_events |-> <<>>, verdict_history |-> <<>>]

\* ValidatorState.effective_weight, in 1/100
effective_weight(v) ==
    v.stake * v.calibration_score * TIER_CONFIG[v.tier].weight_multiplier

\* ValidatorState.can_take_case
can_take_case(v) ==
    LET max_cases == TIER_CONFIG[v.tier].max_cases_per_epoch
    IN  max_cases = INF \/ v.cases_this_epoch < max_cases

\* timedelta.days of now - t
Days(t) == ((now - t) * TickHours) \div 24

\* math.exp(-age_days / CALIBRATION_TIME_CONSTANT_DAYS) in 1/10000, as the
\* age_days-th power of exp(-1/30) = 0.9672 (the time constant is 30 days)
RECURSIVE decay_weight(_)
decay_weight(age_days) ==
    IF age_days <= 0 THEN 10000
    ELSE (decay_weight(age_days - 1) * 9672) \div 10000

RECURSIVE SumOver(_, _)
SumOver(f, n) == IF n = 0 THEN 0 ELSE f[n] + SumOver(f, n - 1)

\* a recalculation that stores the weighted mean as it is
recalculate_calibration_unclipped(validator) ==
    LET h == validator.verdict_history
        weight == [i \in 1..Len(h) |-> decay_weight(Days(h[i].timestamp))]
        score == [i \in 1..Len(h) |->
                    IF h[i].correct THEN h[i].alignment * 2
                    ELSE h[i].alignment]
        weighted == [i \in 1..Len(h) |-> score[i] * weight[i]]
        weighted_sum == SumOver(weighted, Len(h))
        weight_total == SumOver(weight, Len(h))
    IN  IF Len(h) = 0 THEN validator.calibration_score
        ELSE IF weight_total > 0
        THEN weighted_sum \div (2 * weight_total)
        ELSE validator.calibration_score

\* _recalculate_calibration: the new calibration_score, in 1/100
recalculate_calibration(validator) ==
    LET h == validator.verdict_history
        weight == [i \in 1..Len(h) |-> decay_weight(Days(h[i].timestamp))]
        \* alignment in 1/100, score in 1/200
        score == [i \in 1..Len(h) |->
                    IF h[i].correct THEN h[i].alignment * 2
                    ELSE h[i].alignment]
        weighted == [i \in 1..Len(h) |-> score[i] * weight[i]]
        weighted_sum == SumOver(weighted, Len(h))
        weight_total == SumOver(weight, Len(h))
    IN  IF Len(h) = 0 THEN validator.calibration_score
        ELSE IF weight_total > 0
        THEN Min(150, Max(30, weighted_sum \div (2 * weight_total)))
        ELSE validator.calibration_score

\* a demotion that sends every validator below its floor down to scout
check_tier_status_to_scout(validator) ==
    LET min_cal == TIER_CONFIG[validator.tier].min_calibration
    IN  IF validator.calibration_score < min_cal
        THEN [validator EXCEPT !.tier = SCOUT, !.tier_start_date = now]
        ELSE validator

\* _check_tier_status
check_tier_status(validator) ==
    LET min_cal == TIER_CONFIG[validator.tier].min_calibration
    IN  IF validator.calibration_score < min_cal
        THEN [validator EXCEPT
                !.tier = IF @ = ARBITER THEN AUDITOR
                         ELSE IF @ = AUDITOR THEN SCOUT ELSE @,
                !.tier_start_date = now]
        ELSE validator

Abs(x) == IF x < 0 THEN 0 - x ELSE x

\* update_calibration on the state of one validator; confidence in 1/100
update_calibration(validator, was_correct, confidence) ==
    LET alignment == IF was_correct THEN 100 - Abs(100 - confidence)
                     ELSE 100 - confidence
        v1 == [validator EXCEPT
                 !.verdicts_submitted = @ + 1,
                 !.correct_verdicts = IF was_correct THEN @ + 1 ELSE @,
                 !.verdict_history =
                     Append(@, [timestamp |-> now, correct |-> was_correct,
                                confidence |-> confidence,
                                alignment |-> alignment])]
        v2 == [v1 EXCEPT !.calibration_score = recalculate_calibration(v1)]
    IN  check_tier_status(v2)

\* a sweep that subtracts one decay step whatever the time of inactivity
apply_calibration_decay_one_step(vs) ==
    [h \in DOMAIN vs |->
        LET days_inactive == Days(vs[h].last_active)
        IN  IF days_inactive > 7
            THEN [vs[h] EXCEPT
                    !.calibration_score =
                        Max(50, @ - CALIBRATION_DECAY_PER_EPOCH)]
            ELSE vs[h]]

\* apply_calibration_decay on the registry vs: the registry it leaves
apply_calibration_decay(vs) ==
    [h \in DOMAIN vs |->
        LET days_inactive == Days(vs[h].last_active)
        IN  IF days_inactive > 7
            THEN [vs[h] EXCEPT
                    !.calibration_score =
                        Max(50, @ - CALIBRATION_DECAY_PER_EPOCH * (days_inactive \div 7))]
            ELSE vs[h]]

\* new_epoch: the registry it leaves
new_epoch(vs) ==
    apply_calibration_decay([h \in DOMAIN vs |-> [vs[h] EXCEPT !.cases_this_epoch = 0]])

\* a promotion that does not look at the stake
check_tier_promotion_whatever_the_stake(validator) ==
    LET days_active == Days(validator.tier_start_date)
        recent_slashes == SelectSeq(validator.slashing_events, LAMBDA t : Days(t) < 60)
    IN  IF validator.tier = SCOUT
        THEN IF /\ days_active >= 30
                /\ validator.calibration_score >= 70
                /\ validator.verdicts_submitted >= 50
             THEN [validator EXCEPT !.tier = AUDITOR, !.tier_start_date = now]
             ELSE validator
        ELSE IF validator.tier = AUDITOR
        THEN IF /\ days_active >= 90
                /\ validator.calibration_score >= 85
                /\ validator.verdicts_submitted >= 200
                /\ Len(recent_slashes) = 0
             THEN [validator EXCEPT !.tier = ARBITER, !.tier_start_date = now]
             ELSE validator
        ELSE validator

\* check_tier_promotion on the state of one validator: the state it leaves
check_tier_promotion(validator) ==
    LET days_active == Days(validator.tier_start_date)
        recent_slashes == SelectSeq(validator.slashing_events, LAMBDA t : Days(t) < 60)
    IN  IF validator.tier = SCOUT
        THEN IF /\ days_active >= 30
                /\ validator.calibration_score >= 70
                /\ validator.verdicts_submitted >= 50
                /\ validator.stake >= TIER_CONFIG[AUDITOR].stake_required
             THEN [validator EXCEPT !.tier = AUDITOR, !.tier_start_date = now]
             ELSE validator
        ELSE IF validator.tier = AUDITOR
        THEN IF /\ days_active >= 90
                /\ validator.calibration_score >= 85
                /\ validator.verdicts_submitted >= 200
                /\ Len(recent_slashes) = 0
                /\ validator.stake >= TIER_CONFIG[ARBITER].stake_required
             THEN [validator EXCEPT !.tier = ARBITER, !.tier_start_date = now]
             ELSE validator
        ELSE validator

\* check_tier_promotion: what it returns
promotion_result(hotkey) ==
    IF hotkey \notin DOMAIN validators THEN None
    ELSE IF check_tier_promotion(validators[hotkey]).tier = validators[hotkey].tier
    THEN None
    ELSE check_tier_promotion(validators[hotkey]).tier

\* the registered hotkeys, in the order the registry is walked
registered == SelectSeq(HotkeyOrder, LAMBDA h : h \in DOMAIN validators)

\* eligible of assign_dispute
eligible ==
    {h \in DOMAIN validators :
        can_take_case(validators[h]) /\ validators[h].calibration_score >= 50}

\* a selection loop that leaves the validator it drew in the pool
RECURSIVE selections_with_replacement(_, _)
selections_with_replacement(pool, n) ==
    IF n = 0 \/ pool = {} THEN {<<>>}
    ELSE UNION {{<<h>> \o rest : rest \in selections_with_replacement(pool, n - 1)} :
                   h \in pool}

\* the lists the selection loop of assign_dispute can build in n rounds from
\* the pool: each round draws one validator that is still available
RECURSIVE selections(_, _)
selections(pool, n) ==
    IF n = 0 \/ pool = {} THEN {<<>>}
    ELSE UNION {{<<h>> \o rest : rest \in selections(pool \ {h}, n - 1)} : h \in pool}

\* the votes of a dispute, [] when the id has none
votes_of(dispute_id) ==
    IF dispute_id \in DOMAIN dispute_votes THEN dispute_votes[dispute_id] ELSE <<>>

\* a voting window that closes at the deadline instant itself
vote_window_closed_at_deadline(dispute_state) == now >= dispute_state["deadline"]

\* datetime.utcnow() > dispute_state["deadline"]
vote_window_closed(dispute_state) == now > dispute_state["deadline"]

\* mutant: a validator that has voted is not turned away
submit_vote_again(dispute_id, validator_hotkey) ==
    IF dispute_id \notin DOMAIN active_disputes
    THEN [ok |-> FALSE, reason |-> "not_found"]
    ELSE IF ~InSeq(validator_hotkey, active_disputes[dispute_id].assigned_validators)
    THEN [ok |-> FALSE, reason |-> "not_assigned"]
    ELSE IF vote_window_closed(active_disputes[dispute_id])
    THEN [ok |-> FALSE, reason |-> "window_closed"]
    ELSE [ok |-> TRUE, reason |-> None]

\* submit_vote: what it returns
submit_vote(dispute_id, validator_hotkey) ==
    IF dispute_id \notin DOMAIN active_disputes
    THEN [ok |-> FALSE, reason |-> "not_found"]
    ELSE IF ~InSeq(validator_hotkey, active_disputes[dispute_id].assigned_validators)
    THEN [ok |-> FALSE, reason |-> "not_assigned"]
    ELSE IF vote_window_closed(active_disputes[dispute_id])
    THEN [ok |-> FALSE, reason |-> "window_closed"]
    ELSE IF \E i \in 1..Len(dispute_votes[dispute_id]) :
                dispute_votes[dispute_id][i].validator_hotkey = validator_hotkey
    THEN [ok |-> FALSE, reason |-> "already_voted"]
    ELSE [ok |-> TRUE, reason |-> None]

\* the weight of one vote in calculate_consensus; 0 for an unknown validator
vote_weight(vote) ==
    IF vote.validator_hotkey \in DOMAIN validators
    THEN effective_weight(validators[vote.validator_hotkey]) * vote.confidence
    ELSE 0

\* verdict_weights[verdict] of calculate_consensus
RECURSIVE verdict_weight(_, _, _)
verdict_weight(votes, verdict, n) ==
    IF n = 0 THEN 0
    ELSE verdict_weight(votes, verdict, n - 1)
         + (IF votes[n].verdict = verdict THEN vote_weight(votes[n]) ELSE 0)

\* a maximum that keeps the last verdict of maximal weight
RECURSIVE winner_from_last_tie(_, _)
winner_from_last_tie(votes, i) ==
    IF i = Len(VerdictOrder) THEN VerdictOrder[i]
    ELSE LET rest == winner_from_last_tie(votes, i + 1)
         IN  IF verdict_weight(votes, VerdictOrder[i], Len(votes))
                  > verdict_weight(votes, rest, Len(votes))
             THEN VerdictOrder[i] ELSE rest

\* max(vote_breakdown.items(), key=...): the first verdict of maximal weight
\* among the verdicts from position i on
RECURSIVE winner_from(_, _)
winner_from(votes, i) ==
    IF i = Len(VerdictOrder) THEN VerdictOrder[i]
    ELSE LET rest == winner_from(votes, i + 1)
         IN  IF verdict_weight(votes, VerdictOrder[i], Len(votes))
                  >= verdict_weight(votes, rest, Len(votes))
             THEN VerdictOrder[i] ELSE rest

\* <<q, r>> with part * 10^digits = q * whole + r and 0 <= r < whole, digit by
\* digit, so that part / whole is computed without a product beyond 32 bits
RECURSIVE long_division(_, _, _)
long_division(part, whole, digits) ==
    IF digits = 0 THEN <<part \div whole, part % whole>>
    ELSE LET prev == long_division(part, whole, digits - 1)
         IN  <<10 * prev[1] + ((10 * prev[2]) \div whole), (10 * prev[2]) % whole>>

\* winning_weight / total_weight, in 1/10000
share(part, whole) == long_division(part, whole, 4)[1]

participants(votes) == [i \in 1..Len(votes) |-> votes[i].validator_hotkey]

\* ConsensusResult(...) with escalated at its default
ConsensusResult(final_verdict, weighted_score, total_weight, participating) ==
    [final_verdict |-> final_verdict, weighted_score |-> weighted_score,
     total_weight |-> total_weight, participating_validators |-> participating,
     escalated |-> FALSE]

NoResult == [final_verdict |-> None]

\* mutant: the stored votes are tallied whether the dispute is in flight or not
calculate_consensus_of_stored_votes(dispute_id) ==
    LET votes == votes_of(dispute_id)
        weights == [i \in 1..Len(votes) |-> vote_weight(votes[i])]
        total_weight == SumOver(weights, Len(votes))
        winner == winner_from(votes, 1)
    IN  IF Len(votes) = 0
        THEN ConsensusResult(ABSTAIN, 0, 0, <<>>)
        ELSE IF total_weight = 0
        THEN ConsensusResult(ABSTAIN, 0, 0, participants(votes))
        ELSE ConsensusResult(
               winner,
               share(verdict_weight(votes, winner, Len(votes)), total_weight),
               total_weight, participants(votes))

\* calculate_consensus; weighted_score in 1/10000
calculate_consensus(dispute_id) ==
    IF dispute_id \notin DOMAIN active_disputes THEN NoResult
    ELSE LET votes == votes_of(dispute_id)
             weights == [i \in 1..Len(votes) |-> vote_weight(votes[i])]
             total_weight == SumOver(weights, Len(votes))
             winner == winner_from(votes, 1)
         IN  IF Len(votes) = 0
             THEN ConsensusResult(ABSTAIN, 0, 0, <<>>)
             ELSE IF total_weight = 0
             THEN ConsensusResult(ABSTAIN, 0, 0, participants(votes))
             ELSE ConsensusResult(
                    winner,
                    share(verdict_weight(votes, winner, Len(votes)), total_weight),
                    total_weight, participants(votes))

\* ConsensusResult.consensus_reached
consensus_reached(result) == result.weighted_score >= CONSENSUS_THRESHOLD

\* an escalation panel of every validator that can take a case
arbiters_of_any_tier ==
    SelectSeq(registered, LAMBDA h : can_take_case(validators[h]))

\* arbiters of escalate_to_arbiters, as the list of their hotkeys
arbiters ==
    SelectSeq(registered,
              LAMBDA h : validators[h].tier = ARBITER /\ can_take_case(validators[h]))

\* an escalation branch that does not read the escalated flag
needs_escalation_ignoring_flag(dispute_id) ==
    /\ dispute_id \in DOMAIN active_disputes
    /\ ~consensus_reached(calculate_consensus(dispute_id))

\* does finalize_dispute take the escalation branch
needs_escalation(dispute_id) ==
    /\ dispute_id \in DOMAIN active_disputes
    /\ ~consensus_reached(calculate_consensus(dispute_id))
    /\ ~active_disputes[dispute_id].escalated

\* an escalation that returns the tally as calculate_consensus built it
escalate_result_as_tallied(dispute_id) ==
    IF dispute_id \notin DOMAIN active_disputes THEN NoResult
    ELSE IF Len(arbiters) = 0
    THEN calculate_consensus(dispute_id)
    ELSE [ConsensusResult(ABSTAIN, 0, 0, arbiters) EXCEPT !.escalated = TRUE]

\* escalate_to_arbiters: what it returns
escalate_result(dispute_id) ==
    IF dispute_id \notin DOMAIN active_disputes THEN NoResult
    ELSE IF Len(arbiters) = 0
    THEN [calculate_consensus(dispute_id) EXCEPT !.escalated = TRUE]
    ELSE [ConsensusResult(ABSTAIN, 0, 0, arbiters) EXCEPT !.escalated = TRUE]

\* finalize_dispute: what it returns
finalize_result(dispute_id) ==
    IF dispute_id \notin DOMAIN active_disputes THEN NoResult
    ELSE IF needs_escalation(dispute_id) THEN escalate_result(dispute_id)
    ELSE calculate_consensus(dispute_id)

\* the vote of a validator in a list of votes that holds one
vote_by(votes, h) == votes[CHOOSE i \in 1..Len(votes) : votes[i].validator_hotkey = h]

----------------------------------------------------------------------------
(* Operations of the consensus engine *)

\* a registration that falls back to scout whatever the stake
register_tier_without_minimum(stake, tier) ==
    IF stake < TIER_CONFIG[tier].stake_required THEN SCOUT ELSE tier

\* the tier register_validator registers at; None when it raises ValueError
register_tier(stake, tier) ==
    IF stake < TIER_CONFIG[tier].stake_required
    THEN IF stake < TIER_CONFIG[SCOUT].stake_required THEN None ELSE SCOUT
    ELSE tier

\* register_validator; a hotkey is registered once (a second registration
\* would replace the record by a fresh one), a failing call may come anytime
RegisterValidatorOp(hotkey, stake, tier) ==
    /\ hotkey \notin DOMAIN validators \/ register_tier(stake, tier) = None
    /\ IF register_tier(stake, tier) = None
       THEN UNCHANGED validators
       ELSE validators' = (hotkey :> NewValidator(hotkey, register_tier(stake, tier), stake))
                          @@ validators
    /\ UNCHANGED <<now, cmVars, mtVars, active_disputes, dispute_votes, epoch_start,
                   escalation_steps>>

RegisterValidator ==
    \E hotkey \in Hotkeys, stake \in StakeInputs, tier \in TierInputs :
        RegisterValidatorOp(hotkey, stake, tier)

\* assign_dispute: what it does to the engine
assign_dispute(dispute_id, num_validators, selected) ==
    /\ selected \in selections(eligible, Min(num_validators, Cardinality(eligible)))
    /\ IF eligible = {}
       THEN UNCHANGED <<validators, active_disputes, dispute_votes, escalation_steps>>
       ELSE /\ \A h \in SeqToSet(selected) : validators[h].cases_this_epoch < MaxCases
            /\ active_disputes' =
                  (dispute_id :> [assigned_validators |-> selected,
                                  deadline |-> now + Hours(ADJUDICATION_WINDOW_HOURS),
                                  escalated |-> FALSE])
                  @@ active_disputes
            /\ dispute_votes' = (dispute_id :> <<>>) @@ dispute_votes
            /\ validators' =
                  [h \in DOMAIN validators |->
                      IF InSeq(h, selected)
                      THEN [validators[h] EXCEPT !.cases_this_epoch = @ + 1]
                      ELSE validators[h]]
            /\ escalation_steps' = (dispute_id :> 0) @@ escalation_steps
    /\ UNCHANGED epoch_start

\* assign_dispute called on its own
AssignDisputeOp(dispute_id, num_validators, selected) ==
    /\ assign_dispute(dispute_id, num_validators, selected)
    /\ UNCHANGED <<now, cmVars, mtVars>>

AssignDispute ==
    \E num_validators \in NumValidatorsInputs :
        \E selected \in selections(eligible, Min(num_validators, Cardinality(eligible))) :
            AssignDisputeOp(AdjudicationId, num_validators, selected)

\* submit_vote
SubmitVoteOp(dispute_id, validator_hotkey, verdict, confidence) ==
    /\ IF submit_vote(dispute_id, validator_hotkey).ok
       THEN /\ dispute_votes' =
                  [dispute_votes EXCEPT
                      ![dispute_id] =
                          Append(@, [validator_hotkey |-> validator_hotkey,
                                     verdict |-> verdict,
                                     confidence |-> Min(100, Max(0, confidence))])]
            /\ validators' =
                  IF validator_hotkey \in DOMAIN validators
                  THEN [validators EXCEPT ![validator_hotkey].last_active = now]
                  ELSE validators
       ELSE UNCHANGED <<dispute_votes, validators>>
    /\ UNCHANGED <<now, cmVars, mtVars, active_disputes, epoch_start, escalation_steps>>

SubmitVote ==
    \E dispute_id \in AdjudicationIdInputs, validator_hotkey \in Hotkeys,
       verdict \in VoteVerdictInputs, confidence \in VoteConfidenceInputs :
        SubmitVoteOp(dispute_id, validator_hotkey, verdict, confidence)

\* escalate_to_arbiters: what it does to the engine
escalate_to_arbiters(dispute_id) ==
    /\ IF dispute_id \notin DOMAIN active_disputes \/ Len(arbiters) = 0
       THEN UNCHANGED <<active_disputes, dispute_votes, escalation_steps>>
       ELSE /\ escalation_steps[dispute_id] < MaxEscalations
            /\ active_disputes' =
                  [active_disputes EXCEPT
                      ![dispute_id].escalated = TRUE,
                      ![dispute_id].deadline = now + Hours(ESCALATION_WINDOW_HOURS),
                      ![dispute_id].assigned_validators = arbiters]
            /\ dispute_votes' =
                  [dispute_votes EXCEPT
                      ![dispute_id] =
                          SelectSeq(@, LAMBDA v : InSeq(v.validator_hotkey, arbiters))]
            /\ escalation_steps' = [escalation_steps EXCEPT ![dispute_id] = @ + 1]
    /\ UNCHANGED <<validators, epoch_start>>

\* escalate_to_arbiters called on its own
EscalateToArbitersOp(dispute_id) ==
    /\ escalate_to_arbiters(dispute_id)
    /\ UNCHANGED <<now, cmVars, mtVars>>

EscalateToArbiters ==
    \E dispute_id \in AdjudicationIdInputs : EscalateToArbitersOp(dispute_id)

\* mutant: the record of the dispute is kept when the calibrations are updated
finalize_dispute_keeping_record(dispute_id) ==
    IF dispute_id \notin DOMAIN active_disputes
    THEN UNCHANGED ceVars
    ELSE IF needs_escalation(dispute_id)
    THEN escalate_to_arbiters(dispute_id)
    ELSE LET result == calculate_consensus(dispute_id)
             votes == votes_of(dispute_id)
             voters == {votes[i].validator_hotkey : i \in 1..Len(votes)}
         IN  /\ \A h \in voters \cap DOMAIN validators :
                    Len(validators[h].verdict_history) < MaxHistory
             /\ validators' =
                   [h \in DOMAIN validators |->
                       IF h \in voters
                       THEN update_calibration(
                                validators[h],
                                vote_by(votes, h).verdict = result.final_verdict,
                                vote_by(votes, h).confidence)
                       ELSE validators[h]]
             /\ UNCHANGED <<active_disputes, dispute_votes, epoch_start,
                            escalation_steps>>

\* finalize_dispute: what it does to the engine
finalize_dispute(dispute_id) ==
    IF dispute_id \notin DOMAIN active_disputes
    THEN UNCHANGED ceVars
    ELSE IF needs_escalation(dispute_id)
    THEN escalate_to_arbiters(dispute_id)
    ELSE LET result == calculate_consensus(dispute_id)
             votes == votes_of(dispute_id)
             voters == {votes[i].validator_hotkey : i \in 1..Len(votes)}
         IN  /\ \A h \in voters \cap DOMAIN validators :
                    Len(validators[h].verdict_history) < MaxHistory
             /\ validators' =
                   [h \in DOMAIN validators |->
                       IF h \in voters
                       THEN update_calibration(
                                validators[h],
                                vote_by(votes, h).verdict = result.final_verdict,
                                vote_by(votes, h).confidence)
                       ELSE validators[h]]
             /\ active_disputes' =
                   [id \in DOMAIN active_disputes \ {dispute_id} |-> active_disputes[id]]
             /\ UNCHANGED <<dispute_votes, epoch_start, escalation_steps>>

\* finalize_dispute called on its own
FinalizeDisputeOp(dispute_id) ==
    /\ finalize_dispute(dispute_id)
    /\ UNCHANGED <<now, cmVars, mtVars>>

FinalizeDispute ==
    \E dispute_id \in AdjudicationIdInputs : FinalizeDisputeOp(dispute_id)

----------------------------------------------------------------------------
(* Specification of the consensus engine *)

NextConsensus ==
    \/ Tick
    \/ RegisterValidator
    \/ AssignDispute
    \/ SubmitVote
    \/ EscalateToArbiters
    \/ FinalizeDispute

SpecConsensus == Init /\ [][NextConsensus]_vars

----------------------------------------------------------------------------
(* Specification of the registration: every tier is requested, with stakes
   at and just below the three minimum stakes *)

RegisterStakeInputs == {50, 100, 499, 500, 1999, 2000}

RegisterAnyTier ==
    \E hotkey \in Hotkeys, stake \in RegisterStakeInputs, tier \in ValidatorTier :
        RegisterValidatorOp(hotkey, stake, tier)

NextRegister ==
    \/ Tick
    \/ RegisterAnyTier

SpecRegister == Init /\ [][NextRegister]_vars

----------------------------------------------------------------------------
(* Specification of the case counters: two arbiters of stake 2000 have been
   assigned the same dispute id n times in one epoch, each call selecting both
   of them and replacing the in-flight record; the last call was made at the
   first instant.  From there the dispute is voted on, escalated, finalized. *)

\* the number of assign_dispute calls so far
CaseCountInputs == {1, 11, 51}

InitCases ==
    /\ now = 0
    /\ disputes = <<>>
    /\ tree_challenges = [t \in Tasks |-> <<>>]
    /\ dispute_counter = 0
    /\ \E n \in CaseCountInputs :
          validators = [h \in Hotkeys |->
                          [NewValidator(h, ARBITER, 2000) EXCEPT !.cases_this_epoch = n]]
    /\ \E selected \in selections(Hotkeys, Cardinality(Hotkeys)) :
          active_disputes =
              (AdjudicationId :> [assigned_validators |-> selected,
                                  deadline |-> Hours(ADJUDICATION_WINDOW_HOURS),
                                  escalated |-> FALSE])
    /\ dispute_votes = (AdjudicationId :> <<>>)
    /\ epoch_start = 0
    /\ escalation_steps = (AdjudicationId :> 0)
    /\ merkle = NewMerkleTree
    /\ reasoning_nodes = <<>>

NextCases ==
    \/ Tick
    \/ SubmitVote
    \/ EscalateToArbiters
    \/ FinalizeDispute

SpecCases == InitCases /\ [][NextCases]_vars

----------------------------------------------------------------------------
(* Specification of the two engines of one validator neuron.  The dispute
   manager and the consensus engine share no state, so that an interleaving
   of their operations adds nothing to what each does alone: one of them
   runs while the other one is still as constructed. *)

ManagerIdle ==
    /\ disputes = <<>>
    /\ dispute_counter = 0
    /\ tree_challenges = [t \in Tasks |-> <<>>]

ConsensusIdle ==
    /\ validators = <<>>
    /\ active_disputes = <<>>
    /\ dispute_votes = <<>>

NextEngines ==
    \/ Tick
    \/ ConsensusIdle /\ ValidateChallenge
    \/ ConsensusIdle /\ HandleChallenge
    \/ ConsensusIdle /\ SubmitDefense
    \/ ConsensusIdle /\ CheckExpiredDefenses
    \/ ConsensusIdle /\ ResolveDispute
    \/ ManagerIdle /\ RegisterValidator
    \/ ManagerIdle /\ AssignDispute
    \/ ManagerIdle /\ SubmitVote
    \/ ManagerIdle /\ EscalateToArbiters
    \/ ManagerIdle /\ FinalizeDispute

SpecEngines == Init /\ [][NextEngines]_vars

----------------------------------------------------------------------------
(* Specification of the tally: two validators, each registered at a drawn
   tier with the minimum stake of that tier, have been assigned one dispute
   at the first instant; they vote any verdict with any of three confidences *)

TallyTierInputs == ValidatorTier
TallyConfidenceInputs == {0, 50, 100}

InitTally ==
    /\ now = 0
    /\ disputes = <<>>
    /\ tree_challenges = [t \in Tasks |-> <<>>]
    /\ dispute_counter = 0
    /\ \E tiers \in [Hotkeys -> TallyTierInputs] :
          validators =
              [h \in Hotkeys |->
                  [NewValidator(h, tiers[h], TIER_CONFIG[tiers[h]].stake_required)
                      EXCEPT !.cases_this_epoch = 1]]
    /\ active_disputes =
          (AdjudicationId :> [assigned_validators |-> HotkeyOrder,
                              deadline |-> Hours(ADJUDICATION_WINDOW_HOURS),
                              escalated |-> FALSE])
    /\ dispute_votes = (AdjudicationId :> <<>>)
    /\ epoch_start = 0
    /\ escalation_steps = (AdjudicationId :> 0)
    /\ merkle = NewMerkleTree
    /\ reasoning_nodes = <<>>

SubmitVoteTally ==
    \E validator_hotkey \in Hotkeys, verdict \in Verdict,
       confidence \in TallyConfidenceInputs :
        SubmitVoteOp(AdjudicationId, validator_hotkey, verdict, confidence)

NextTally ==
    \/ Tick
    \/ SubmitVoteTally

SpecTally == InitTally /\ [][NextTally]_vars

----------------------------------------------------------------------------
(* Specification of the calibration: a validator is registered, its
   calibration is updated by direct calls of update_calibration, weeks pass,
   and the decay sweep and the epoch rollover run at any time.  The records
   of the registry do not read each other: update_calibration writes the one
   it is called for, the sweeps treat each on its own.  One hotkey is
   followed; the other one is never registered, it is the unknown hotkey. *)

CalibrationConfidenceInputs == {40, 90}

SleepHours == {24 * 7, 24 * 7 + 12}

\* a week passes, or a week and a half day
Sleep ==
    \E hours \in SleepHours :
        /\ now + Hours(hours) <= Hours(24 * MaxDays)
        /\ now' = now + Hours(hours)
        /\ UNCHANGED <<cmVars, ceVars, mtVars>>

\* update_calibration
UpdateCalibrationOp(hotkey, was_correct, confidence) ==
    /\ IF hotkey \notin DOMAIN validators
       THEN UNCHANGED validators
       ELSE /\ Len(validators[hotkey].verdict_history) < MaxUpdates
            /\ validators' =
                  [validators EXCEPT
                      ![hotkey] = update_calibration(@, was_correct, confidence)]
    /\ UNCHANGED <<now, cmVars, mtVars, active_disputes, dispute_votes, epoch_start,
                   escalation_steps>>

UpdateCalibration ==
    \E hotkey \in Hotkeys, was_correct \in BOOLEAN,
       confidence \in CalibrationConfidenceInputs :
        UpdateCalibrationOp(hotkey, was_correct, confidence)

\* apply_calibration_decay
ApplyCalibrationDecay ==
    /\ validators' = apply_calibration_decay(validators)
    /\ UNCHANGED <<now, cmVars, mtVars, active_disputes, dispute_votes, epoch_start,
                   escalation_steps>>

\* new_epoch
NewEpoch ==
    /\ epoch_start' = now
    /\ validators' = new_epoch(validators)
    /\ UNCHANGED <<now, cmVars, mtVars, active_disputes, dispute_votes, escalation_steps>>

RegisterCalibration ==
    \E stake \in StakeInputs, tier \in TierInputs :
        RegisterValidatorOp(HotkeyOrder[1], stake, tier)

NextCalibration ==
    \/ Tick
    \/ Sleep
    \/ RegisterCalibration
    \/ UpdateCalibration
    \/ ApplyCalibrationDecay
    \/ NewEpoch

SpecCalibration == Init /\ [][NextCalibration]_vars

----------------------------------------------------------------------------
(* Specification of the epochs: validators are registered and assigned a
   dispute, weeks pass, and the decay sweep and the epoch rollover run at any
   time *)

NextEpoch ==
    \/ Sleep
    \/ RegisterValidator
    \/ AssignDispute
    \/ NewEpoch

SpecEpoch == Init /\ [][NextEpoch]_vars

----------------------------------------------------------------------------
(* Specification of the promotion.  One validator was registered d days ago
   at a tier its stake allows, then updated n times at once with correct
   votes of one confidence that keeps its tier, then decayed by sweeps of
   one step each (between the 8th and the 13th day) down to the calibration
   drawn.  From there check_tier_promotion is called, and weeks pass. *)

PromotionStakeInputs == {499, 500, 1999, 2000}
PromotionVerdictInputs == {49, 50, 199, 200}
PromotionCalibrationInputs == {69, 70, 84, 85}
PromotionDayInputs == {29, 30, 89, 90}

\* the confidence of the votes behind a calibration of c at a tier: c, or
\* the least confidence of the parity of c that keeps the tier
KeepingConfidence(tier, c) ==
    LET min_cal == TIER_CONFIG[tier].min_calibration
    IN  IF c >= min_cal THEN c ELSE min_cal + ((min_cal - c) % (1 + 1))

InitPromotion ==
    /\ now = 0
    /\ disputes = <<>>
    /\ tree_challenges = [t \in Tasks |-> <<>>]
    /\ dispute_counter = 0
    /\ \E tier \in ValidatorTier, stake \in PromotionStakeInputs,
          n \in PromotionVerdictInputs, c \in PromotionCalibrationInputs,
          d \in PromotionDayInputs :
          /\ stake >= TIER_CONFIG[tier].stake_required
          /\ validators =
                (HotkeyOrder[1] :>
                   [hotkey |-> HotkeyOrder[1], tier |-> tier, stake |-> stake,
                    calibration_score |-> c,
                    verdicts_submitted |-> n, correct_verdicts |-> n,
                    cases_this_epoch |-> 0,
                    last_active |-> 0 - Hours(24 * d),
                    tier_start_date |-> 0 - Hours(24 * d),
                    slashing_events |-> <<>>,
                    verdict_history |->
                        [i \in 1..n |->
                            [timestamp |-> 0 - Hours(24 * d), correct |-> TRUE,
                             confidence |-> KeepingConfidence(tier, c),
                             alignment |-> KeepingConfidence(tier, c)]]])
    /\ active_disputes = <<>>
    /\ dispute_votes = <<>>
    /\ epoch_start = 0
    /\ escalation_steps = <<>>
    /\ merkle = NewMerkleTree
    /\ reasoning_nodes = <<>>

\* check_tier_promotion
CheckTierPromotionOp(hotkey) ==
    /\ IF hotkey \notin DOMAIN validators
       THEN UNCHANGED validators
       ELSE validators' = [validators EXCEPT ![hotkey] = check_tier_promotion(@)]
    /\ UNCHANGED <<now, cmVars, mtVars, active_disputes, dispute_votes, epoch_start,
                   escalation_steps>>

CheckTierPromotion ==
    \E hotkey \in Hotkeys : CheckTierPromotionOp(hotkey)

NextPromotion ==
    \/ Tick
    \/ Sleep
    \/ CheckTierPromotion

SpecPromotion == InitPromotion /\ [][NextPromotion]_vars

----------------------------------------------------------------------------
(* Specification of the Merkle tree: one ReasoningMerkleTree is built, and
   built again, from lists of reasoning nodes with pairwise distinct ids *)

MerkleIdPool == <<"a", "b", "c", "d", "e", "f", "g", "h">>
MerkleIds == {MerkleIdPool[i] : i \in 1..MaxNodes}
\* an id that no list holds
UnknownNodeId == "z"
MerkleClaims == {"p", "q"}

\* the lists of at most MaxNodes nodes: any ids of the pool in its order,
\* all with the same claim
ReasoningNodeLists ==
    {[i \in 1..Len(ids) |-> [id |-> ids[i], claim |-> claim]] :
        ids \in {SelectSeq(SubSeq(MerkleIdPool, 1, MaxNodes), LAMBDA x : x \in S) :
                    S \in SUBSET MerkleIds},
        claim \in MerkleClaims}

\* build_from_reasoning_tree
BuildFromReasoningTreeOp(list) ==
    /\ merkle' = build_from_reasoning_tree(merkle, list)
    /\ reasoning_nodes' = IF Len(list) = 0 THEN reasoning_nodes ELSE list
    /\ UNCHANGED <<now, cmVars, ceVars>>

BuildFromReasoningTree ==
    \E list \in ReasoningNodeLists : BuildFromReasoningTreeOp(list)

NextMerkle ==
    \/ BuildFromReasoningTree

SpecMerkle == Init /\ [][NextMerkle]_vars

----------------------------------------------------------------------------
(* Specification of the Merkle roots: the tree is built from the lists of
   reasoning nodes above and from each of them with its last node once more *)

LeafLists ==
    ReasoningNodeLists
       \cup {Append(list, list[Len(list)]) :
                list \in {l \in ReasoningNodeLists : Len(l) > 0}}

BuildFromLeafList ==
    \E list \in LeafLists : BuildFromReasoningTreeOp(list)

NextLeaves ==
    \/ BuildFromLeafList

SpecLeaves == Init /\ [][NextLeaves]_vars

----------------------------------------------------------------------------
(* Specification of the validator neuron, src/neurons/validator.py: one
   ChallengeManager and one ValidatorConsensus behind the handlers and the
   main loop. The neuron starts with its own validator registered and with
   the dispute of a first accepted challenge; further validators register
   and vote through the consensus engine. *)

\* the hotkey of the wallet of the neuron
NeuronHotkey == HotkeyOrder[1]

\* config.stake and config.tier: the defaults, and an arbiter
NeuronConfigInputs ==
    {[stake |-> 100, tier |-> SCOUT], [stake |-> 2000, tier |-> ARBITER]}

\* Validator.__init__, then handle_challenge of a first valid challenge
InitNeuron ==
    /\ now = 0
    /\ disputes =
          (AdjudicationId :>
              NewDispute(AdjudicationId,
                         [target_node |-> "n0", attack_type |-> "logical_fallacy",
                          stake |-> 10, challenger_hotkey |-> "c"],
                         TreeOf("t1", 100, 0)))
    /\ tree_challenges = [t \in Tasks |-> IF t = "t1" THEN <<AdjudicationId>> ELSE <<>>]
    /\ dispute_counter = 1
    /\ \E config \in NeuronConfigInputs :
          validators = (NeuronHotkey :>
                           NewValidator(NeuronHotkey, config.tier, config.stake))
    /\ active_disputes = <<>>
    /\ dispute_votes = <<>>
    /\ epoch_start = 0
    /\ escalation_steps = <<>>
    /\ merkle = NewMerkleTree
    /\ reasoning_nodes = <<>>

\* handle_defense: submit_defense and, when it accepts the defense,
\* initiate_adjudication, which assigns the dispute with num_validators = 5.
\* The task that handle_defense creates for it runs up to assign_dispute
\* without a suspension; the tree and the contested node are the ones
\* handle_challenge has found.
HandleDefenseOp(dispute_id, defense, selected) ==
    IF submit_defense(dispute_id).ok
    THEN /\ disputes' = [disputes EXCEPT
                             ![dispute_id].defense = defense,
                             ![dispute_id].status = PENDING_ADJUDICATION]
         /\ assign_dispute(dispute_id, 5, selected)
         /\ UNCHANGED <<now, tree_challenges, dispute_counter, mtVars>>
    ELSE UNCHANGED vars

HandleDefense ==
    \E dispute_id \in AdjudicationIdInputs, defense \in DefenseInputs :
        \E selected \in selections(eligible, Min(5, Cardinality(eligible))) :
            HandleDefenseOp(dispute_id, defense, selected)

\* a vote reaches the consensus engine: the one initiate_adjudication submits
\* for the neuron after generate_verdict when auto_verdict is set, or the one
\* of another validator
SubmitVoteNeuron ==
    \E validator_hotkey \in Hotkeys, verdict \in Verdict,
       confidence \in VoteConfidenceInputs :
        SubmitVoteOp(AdjudicationId, validator_hotkey, verdict, confidence)

\* get_pending_adjudication after the sweep, in the order of self.disputes
pending_adjudication(swept) ==
    SelectSeq(ids_in_order(dispute_counter),
              LAMBDA id : swept[id].status = PENDING_ADJUDICATION)

\* finalize_disputes, one pass of the main loop: check_expired_defenses, then
\* for the dispute pending adjudication finalize_dispute and, when the result
\* has reached consensus, resolve_dispute with the verdict and the weighted
\* score (handed over in 1/100). This specification holds one dispute, so the
\* loop over the pending disputes has at most one round. The locals of the
\* handler (expired sweep, pending, result) are bound once each.
FinalizeDisputes ==
    \E swept \in {[id \in DOMAIN disputes |->
                      IF defense_expired(disputes[id])
                      THEN resolve_no_defense(disputes[id])
                      ELSE disputes[id]]} :
    \E pending \in {pending_adjudication(swept)} :
        /\ Len(pending) <= 1
        /\ IF Len(pending) = 0
           THEN /\ disputes' = swept
                /\ UNCHANGED ceVars
           ELSE \E result \in {finalize_result(pending[1])} :
                    /\ finalize_dispute(pending[1])
                    /\ disputes' =
                          IF result # NoResult /\ consensus_reached(result)
                          THEN [swept EXCEPT
                                   ![pending[1]] =
                                       resolved_dispute(@, result.final_verdict,
                                                        result.weighted_score \div 100)]
                          ELSE swept
        /\ UNCHANGED <<now, tree_challenges, dispute_counter, mtVars>>

NextNeuron ==
    \/ Tick
    \/ RegisterValidator
    \/ HandleDefense
    \/ SubmitVoteNeuron
    \/ FinalizeDisputes

SpecNeuron == InitNeuron /\ [][NextNeuron]_vars

\* the main loop of run calls finalize_disputes every 12 seconds, forever
SpecNeuronFair == SpecNeuron /\ WF_vars(FinalizeDisputes)

----------------------------------------------------------------------------
(* Claims about the dispute manager *)

SamePair(a, b) ==
    /\ disputes[a].task_id = disputes[b].task_id
    /\ disputes[a].target_node_id = disputes[b].target_node_id

\* C1: in every reachable state at most one dispute whose status is not
\* resolved exists for any pair (task_id, target_node_id).
C1_OneActiveDisputePerNode ==
    \A a, b \in DOMAIN disputes :
        (a # b /\ SamePair(a, b))
            => (disputes[a].status = RESOLVED \/ disputes[b].status = RESOLVED)

\* a node is challenged again after its first dispute was resolved, and the
\* second dispute is open
C1_Witness ==
    \E a, b \in DOMAIN disputes :
        /\ a # b
        /\ SamePair(a, b)
        /\ disputes[a].status = RESOLVED
        /\ disputes[b].status # RESOLVED

\* C2: a status changes only pending-defense -> pending-adjudication,
\* pending-adjudication -> resolved, and pending-defense -> resolved once the
\* defense deadline has passed; never backwards, and never to expired.
C2_StatusTransitions ==
    [][\A id \in DOMAIN disputes :
          LET old == disputes[id]
              new == disputes'[id]
          IN  /\ new.status # EXPIRED
              /\ old.status # new.status =>
                    \/ old.status = PENDING_DEFENSE /\ new.status = PENDING_ADJUDICATION
                    \/ old.status = PENDING_ADJUDICATION /\ new.status = RESOLVED
                    \/ /\ old.status = PENDING_DEFENSE
                       /\ new.status = RESOLVED
                       /\ now > old.defense_deadline]_vars

Outcome(d) ==
    <<d.verdict, d.proposer_payout, d.challenger_payout,
      d.proposer_reputation_delta, d.challenger_reputation_delta>>

\* C3: once a dispute is resolved, its verdict, its payouts and its two
\* reputation deltas never change again.
C3_ResolvedIsImmutable ==
    [][\A id \in DOMAIN disputes :
          disputes[id].status = RESOLVED
              => Outcome(disputes'[id]) = Outcome(disputes[id])]_vars

DefenseAllowed(id) ==
    /\ id \in DOMAIN disputes
    /\ disputes[id].status = PENDING_DEFENSE
    /\ now <= disputes[id].defense_deadline

\* C7: submit_defense succeeds if and only if the dispute exists, its status
\* is pending-defense and now <= defense_deadline; on success the defense is
\* stored and the status becomes pending-adjudication; otherwise it is rejected
\* and nothing is stored.
C7_SubmitDefense ==
    /\ [](\A id \in DisputeIdInputs : submit_defense(id).ok <=> DefenseAllowed(id))
    /\ [][\A id \in DisputeIdInputs, defense \in DefenseInputs :
            SubmitDefenseOp(id, defense) =>
                IF DefenseAllowed(id)
                THEN /\ disputes'[id].defense = defense
                     /\ disputes'[id].status = PENDING_ADJUDICATION
                ELSE disputes' = disputes]_vars

\* a defense was accepted, and later defenses for that dispute are rejected:
\* one for being out of state, and an unknown id for not being found
C7_Witness ==
    \E id \in DOMAIN disputes :
        /\ disputes[id].status = PENDING_ADJUDICATION
        /\ disputes[id].defense \in DefenseInputs
        /\ now <= disputes[id].defense_deadline
        /\ submit_defense(id).reason = "invalid_state"
        /\ submit_defense(UnknownId).reason = "not_found"

AtChallengeBoundary(tree) ==
    /\ tree.submitted_at # NoTime
    /\ now = tree.submitted_at + Hours(CHALLENGE_WINDOW_HOURS)

AtDefenseBoundary(id) ==
    /\ disputes[id].status = PENDING_DEFENSE
    /\ now = disputes[id].defense_deadline

\* C8 as stated: a challenge validated at exactly submitted_at + 6 hours is
\* rejected, and a defense submitted at exactly the defense deadline is rejected.
C8_BoundaryRejected ==
    /\ \A challenge \in ChallengeInputs, tree \in TreeInputs :
          AtChallengeBoundary(tree) => ~validate_challenge(challenge, tree).ok
    /\ \A id \in DOMAIN disputes :
          AtDefenseBoundary(id) => ~submit_defense(id).ok

\* the other three conditions of validate_challenge, stated on the state
NodeInTree(challenge, tree) ==
    challenge.target_node = tree.root \/ InSeq(challenge.target_node, tree.nodes)

StakeSufficient(challenge, tree) == 10 * challenge.stake >= tree.stake

NoActiveDispute(challenge, tree) ==
    ~\E id \in DOMAIN disputes :
        /\ disputes[id].task_id = tree.task_id
        /\ disputes[id].target_node_id = challenge.target_node
        /\ disputes[id].status # RESOLVED

\* C8, amended: the boundaries are inclusive.  At exactly submitted_at + 6 hours
\* a challenge is never rejected as window-closed and is accepted when the other
\* three conditions hold; at exactly the defense deadline the defense of a
\* pending-defense dispute is accepted.
C8_BoundaryAccepted ==
    /\ \A challenge \in ChallengeInputs, tree \in TreeInputs :
          AtChallengeBoundary(tree) =>
              /\ validate_challenge(challenge, tree).reason # "window_closed"
              /\ (NodeInTree(challenge, tree) /\ StakeSufficient(challenge, tree)
                    /\ NoActiveDispute(challenge, tree))
                 => validate_challenge(challenge, tree).ok
    /\ \A id \in DOMAIN disputes :
          AtDefenseBoundary(id) => submit_defense(id).ok

\* the clock stands at both boundaries: six hours after a tree's submission,
\* and at the defense deadline of a dispute that waits for its defense
C8_Witness ==
    /\ \E challenge \in ChallengeInputs, tree \in TreeInputs :
          AtChallengeBoundary(tree) /\ validate_challenge(challenge, tree).ok
    /\ \E id \in DOMAIN disputes : AtDefenseBoundary(id) /\ submit_defense(id).ok

\* the reason validate_challenge is to report: the first failing condition
FirstFailure(c1, c2, c3, c4) ==
    IF ~c1 THEN "node_not_found"
    ELSE IF ~c2 THEN "stake_too_low"
    ELSE IF ~c3 THEN "window_closed"
    ELSE IF ~c4 THEN "duplicate_challenge"
    ELSE None

\* C9 as stated: accepted iff the node is in the tree, the stake is >= 10% of
\* the tree's stake, now is within 6 hours of the tree's submission time (also
\* required of a tree without submitted_at) and no unresolved dispute exists for
\* (task, node); the reason is the first failing condition.
C9_ValidateChallengeStrict ==
    \A challenge \in ChallengeInputs, tree \in TreeInputs :
        LET inWindow == /\ tree.submitted_at # NoTime
                        /\ now <= tree.submitted_at + Hours(CHALLENGE_WINDOW_HOURS)
            expected == FirstFailure(NodeInTree(challenge, tree),
                                     StakeSufficient(challenge, tree),
                                     inWindow,
                                     NoActiveDispute(challenge, tree))
        IN  /\ validate_challenge(challenge, tree).ok <=> (expected = None)
            /\ validate_challenge(challenge, tree).reason = expected

\* C9, amended: as C9, but a tree whose submitted_at is absent passes the
\* window condition at any time.
C9_ValidateChallenge ==
    \A challenge \in ChallengeInputs, tree \in TreeInputs :
        LET inWindow == \/ tree.submitted_at = NoTime
                        \/ now <= tree.submitted_at + Hours(CHALLENGE_WINDOW_HOURS)
            expected == FirstFailure(NodeInTree(challenge, tree),
                                     StakeSufficient(challenge, tree),
                                     inWindow,
                                     NoActiveDispute(challenge, tree))
        IN  /\ validate_challenge(challenge, tree).ok <=> (expected = None)
            /\ validate_challenge(challenge, tree).reason = expected

\* every outcome occurs in one state, among them a challenge that fails three
\* conditions at once and a tree without submitted_at that is accepted after
\* the window of a stamped tree has closed
C9_Witness ==
    /\ \E challenge \in ChallengeInputs, tree \in TreeInputs :
          /\ ~NodeInTree(challenge, tree)
          /\ ~StakeSufficient(challenge, tree)
          /\ window_closed(tree)
          /\ validate_challenge(challenge, tree).reason = "node_not_found"
    /\ \E challenge \in ChallengeInputs, tree \in TreeInputs :
          /\ window_closed(tree)
          /\ ~NoActiveDispute(challenge, tree)
          /\ validate_challenge(challenge, tree).reason = "window_closed"
    /\ \E challenge \in ChallengeInputs, tree \in TreeInputs :
          validate_challenge(challenge, tree).reason = "duplicate_challenge"
    /\ \E challenge \in ChallengeInputs, tree \in TreeInputs :
          validate_challenge(challenge, tree).reason = "stake_too_low"
    /\ \E challenge \in ChallengeInputs, tree \in TreeInputs :
          /\ tree.submitted_at = NoTime
          /\ validate_challenge(challenge, tree).ok

ExpiredNow == {id \in DOMAIN disputes :
                  /\ disputes[id].status = PENDING_DEFENSE
                  /\ disputes[id].defense_deadline < now}

\* C10: check_expired_defenses returns exactly the ids of the disputes whose
\* status is pending-defense and whose deadline is strictly before now; each
\* returned dispute becomes resolved with verdict challenge-upheld, and every
\* other dispute is left unchanged.
C10_CheckExpiredDefenses ==
    /\ [](/\ SeqToSet(expired_ids) = ExpiredNow
          /\ Len(expired_ids) = Cardinality(ExpiredNow))
    /\ [][CheckExpiredDefenses =>
            /\ DOMAIN disputes' = DOMAIN disputes
            /\ \A id \in DOMAIN disputes :
                  IF id \in ExpiredNow
                  THEN /\ disputes'[id].status = RESOLVED
                       /\ disputes'[id].verdict = CHALLENGE_UPHELD
                  ELSE disputes'[id] = disputes[id]]_vars

\* the sweep has resolved one dispute and has left alone another one, which
\* still waits for its defense at its deadline instant
C10_Witness ==
    \E a, b \in DOMAIN disputes :
        /\ disputes[a].status = RESOLVED
        /\ disputes[a].verdict = CHALLENGE_UPHELD
        /\ disputes[a].proposer_reputation_delta = 0 - 1500
        /\ disputes[b].status = PENDING_DEFENSE
        /\ disputes[b].defense_deadline = now

\* C11: the expiry sweep is idempotent: right after check_expired_defenses no
\* dispute is expired, so that a second call returns an empty list, and a call
\* that finds no expired dispute (at the same or a later instant) leaves every
\* dispute, with its status, verdict, payouts and reputation deltas, as the
\* first call left it.
C11_SweepIdempotent ==
    [][CheckExpiredDefenses =>
          /\ expired_ids' = <<>>
          /\ \A id \in DOMAIN disputes' :
                ~(/\ disputes'[id].status = PENDING_DEFENSE
                  /\ disputes'[id].defense_deadline < now')
          /\ (expired_ids = <<>> => disputes' = disputes)]_vars

\* the sweep has resolved a dispute whose deadline has passed, and a second
\* sweep would find nothing
C11_Witness ==
    /\ expired_ids = <<>>
    /\ \E id \in DOMAIN disputes :
          /\ disputes[id].status = RESOLVED
          /\ disputes[id].defense = None
          /\ disputes[id].proposer_reputation_delta = 0 - 1500
          /\ disputes[id].defense_deadline < now

\* C13: a dispute resolved by resolve_dispute with confidence c, proposer
\* stake P, challenger stake C and attack multiplier m stores, in 1/10000:
\* upheld: challenger C*m*c + 0.30*P*c, proposer -0.30*P*c, reputation
\* (-0.10*c, +0.05*c); rejected: challenger -0.50*C*c, proposer 0.60*0.50*C*c,
\* reputation (+0.02*c, -0.05*c); partial: challenger 0.5*C*m*c + 0.15*P*c
\* - 0.20*C, proposer -0.15*P*c, reputation (-0.03*c, +0.01*c).
C13_PayoutTable ==
    [][\A id \in DOMAIN disputes, verdict \in Verdict \ {ABSTAIN},
          c \in PayoutConfidenceInputs :
          ResolveDisputeOp(id, verdict, c) =>
             LET d == disputes'[id]
                 P == disputes[id].proposer_stake
                 C == disputes[id].challenger_stake
                 \* m in tenths, c in 1/100
                 m == ATTACK_MULTIPLIERS[disputes[id].attack_type]
             IN  /\ d.status = RESOLVED
                 /\ d.verdict = verdict
                 /\ verdict = CHALLENGE_UPHELD =>
                       /\ d.challenger_payout = 10 * C * m * c + 30 * P * c
                       /\ d.proposer_payout = 0 - 30 * P * c
                       /\ d.proposer_reputation_delta = 0 - 10 * c
                       /\ d.challenger_reputation_delta = 5 * c
                 /\ verdict = CHALLENGE_REJECTED =>
                       /\ d.challenger_payout = 0 - 50 * C * c
                       /\ 10 * d.proposer_payout = 6 * 50 * C * c
                       /\ d.proposer_reputation_delta = 2 * c
                       /\ d.challenger_reputation_delta = 0 - 5 * c
                 /\ verdict = PARTIAL =>
                       /\ d.challenger_payout = 5 * C * m * c + 15 * P * c - 2000 * C
                       /\ d.proposer_payout = 0 - 15 * P * c
                       /\ d.proposer_reputation_delta = 0 - 3 * c
                       /\ d.challenger_reputation_delta = c]_vars

\* the example of the rejected challenge: C = 40, c = 0.8 gives the challenger
\* -16 and the proposer 9.6, reputation +0.016 and -0.04
C13_Witness ==
    \E id \in DOMAIN disputes :
        /\ disputes[id].status = RESOLVED
        /\ disputes[id].verdict = CHALLENGE_REJECTED
        /\ disputes[id].challenger_stake = 40
        /\ disputes[id].challenger_payout = 0 - 160000
        /\ disputes[id].proposer_payout = 96000
        /\ disputes[id].proposer_reputation_delta = 160
        /\ disputes[id].challenger_reputation_delta = 0 - 400

\* C14: a dispute resolved by the no-defense sweep gets challenger_payout
\* C*m + min(P, 0.45*P), proposer_payout -min(P, 0.45*P), proposer reputation
\* delta -0.15 and challenger reputation delta +0.05, whatever its stakes and
\* attack kind; no confidence enters.
C14_NoDefensePayout ==
    [][CheckExpiredDefenses =>
          \A id \in ExpiredNow :
             LET d == disputes'[id]
                 P == disputes[id].proposer_stake
                 C == disputes[id].challenger_stake
                 m == ATTACK_MULTIPLIERS[disputes[id].attack_type]
                 slash == IF 10000 * P < 4500 * P THEN 10000 * P ELSE 4500 * P
             IN  /\ d.challenger_payout = 1000 * C * m + slash
                 /\ d.proposer_payout = 0 - slash
                 /\ d.proposer_reputation_delta = 0 - 1500
                 /\ d.challenger_reputation_delta = 500]_vars

\* the example of the sweep: C = 30, logical fallacy (2.5), P = 100 gives the
\* challenger 75 + 45 = 120 and the proposer -45
C14_Witness ==
    \E id \in DOMAIN disputes :
        /\ disputes[id].status = RESOLVED
        /\ disputes[id].defense = None
        /\ disputes[id].attack_type = "logical_fallacy"
        /\ disputes[id].challenger_stake = 30
        /\ disputes[id].proposer_stake = 100
        /\ disputes[id].challenger_payout = 1200000
        /\ disputes[id].proposer_payout = 0 - 450000
        /\ disputes[id].proposer_reputation_delta = 0 - 1500
        /\ disputes[id].challenger_reputation_delta = 500

----------------------------------------------------------------------------
(* Claims about the consensus engine *)

\* C4: for every dispute id, over any sequence of finalize_dispute and
\* escalate_to_arbiters calls and validator registrations, the escalation step
\* (replacing the assigned set, resetting the deadline, discarding the votes
\* of non-arbiters) is performed at most once between the assignment of the
\* dispute and the clearing of its in-flight record.
C4_EscalationAtMostOnce ==
    \A id \in DOMAIN escalation_steps : escalation_steps[id] <= 1

\* the votes of a hotkey in a list of votes
VotesOf(votes, h) == {i \in 1..Len(votes) : votes[i].validator_hotkey = h}

\* the voters of a dispute
Voters(id) == {votes_of(id)[i].validator_hotkey : i \in 1..Len(votes_of(id))}

\* C5: finalize_dispute on an in-flight dispute: if the winning share of the
\* tally is below 0.6 and the escalated flag of the dispute is false, it
\* triggers the escalation, applies no calibration update and keeps the
\* in-flight record; otherwise it applies exactly one calibration update to
\* each voter of the dispute, to no other validator, removes the in-flight
\* record and returns the tally.
C5_FinalizeDispute ==
    [][\A id \in DOMAIN active_disputes :
          FinalizeDisputeOp(id) =>
             IF /\ calculate_consensus(id).weighted_score < 6000
                /\ ~active_disputes[id].escalated
             THEN /\ EscalateToArbitersOp(id)
                  /\ finalize_result(id) = escalate_result(id)
                  /\ validators' = validators
                  /\ id \in DOMAIN active_disputes'
             ELSE /\ \A h \in DOMAIN validators :
                        /\ validators'[h].verdicts_submitted
                              = validators[h].verdicts_submitted
                                + (IF h \in Voters(id) THEN 1 ELSE 0)
                        /\ Len(validators'[h].verdict_history)
                              = Len(validators[h].verdict_history)
                                + (IF h \in Voters(id) THEN 1 ELSE 0)
                        /\ h \notin Voters(id) => validators'[h] = validators[h]
                  /\ id \notin DOMAIN active_disputes'
                  /\ dispute_votes' = dispute_votes
                  /\ finalize_result(id) = calculate_consensus(id)]_vars

\* a dispute went through the escalation branch once, was then finalized with
\* the vote of an arbiter, and a registered validator that did not vote kept
\* an empty history
C5_Witness ==
    /\ AdjudicationId \in DOMAIN escalation_steps
    /\ escalation_steps[AdjudicationId] = 1
    /\ AdjudicationId \notin DOMAIN active_disputes
    /\ \E h, g \in DOMAIN validators :
          /\ h \in Voters(AdjudicationId)
          /\ validators[h].verdicts_submitted = 1
          /\ g \notin Voters(AdjudicationId)
          /\ validators[g].verdicts_submitted = 0

\* the four conditions of an accepted vote
VoteAllowed(id, h) ==
    /\ id \in DOMAIN active_disputes
    /\ \E i \in 1..Len(active_disputes[id].assigned_validators) :
          active_disputes[id].assigned_validators[i] = h
    /\ now <= active_disputes[id].deadline
    /\ VotesOf(dispute_votes[id], h) = {}

\* C6: submit_vote is accepted if and only if the dispute id has an in-flight
\* record, the voter is in the current assigned set of that record, now is at
\* most the deadline of the record, and the votes of the dispute hold no
\* earlier vote of the voter; an accepted call appends exactly one vote of the
\* voter, and a rejected call appends none.
C6_SubmitVote ==
    /\ [](\A id \in AdjudicationIdInputs, h \in Hotkeys :
            submit_vote(id, h).ok <=> VoteAllowed(id, h))
    /\ [][\A id \in AdjudicationIdInputs, h \in Hotkeys,
             verdict \in VoteVerdictInputs, confidence \in VoteConfidenceInputs :
             SubmitVoteOp(id, h, verdict, confidence) =>
                IF VoteAllowed(id, h)
                THEN /\ Len(dispute_votes'[id]) = Len(dispute_votes[id]) + 1
                     /\ SubSeq(dispute_votes'[id], 1, Len(dispute_votes[id]))
                           = dispute_votes[id]
                     /\ dispute_votes'[id][Len(dispute_votes'[id])].validator_hotkey = h
                     /\ dispute_votes'[id][Len(dispute_votes'[id])].verdict = verdict
                     /\ Cardinality(VotesOf(dispute_votes'[id], h)) = 1
                ELSE dispute_votes' = dispute_votes]_vars

\* a vote was accepted at the deadline instant of its dispute, from a validator
\* registered before that instant
C6_Witness ==
    /\ AdjudicationId \in DOMAIN active_disputes
    /\ now = active_disputes[AdjudicationId].deadline
    /\ \E h \in DOMAIN validators :
          /\ VotesOf(dispute_votes[AdjudicationId], h) # {}
          /\ validators[h].tier_start_date < now
          /\ validators[h].last_active = now

----------------------------------------------------------------------------
(* Claims about both engines *)

\* C12: an operation that returns a failure leaves the state of its engine
\* unchanged: a rejected submit_defense leaves the disputes unchanged, a
\* rejected submit_vote leaves the votes and the validators unchanged,
\* resolve_dispute on an unknown id changes no dispute, register_validator
\* with a stake below the scout minimum of 100 leaves the registry unchanged,
\* and validate_challenge changes nothing whatever it answers.  A step that
\* changes nothing satisfies all of this; a step that changes something has to
\* be the step of no failing call.
C12_FailureChangesNothing ==
    [][\/ UNCHANGED vars
       \/ /\ \A id \in DisputeIdInputs, defense \in DefenseInputs :
                ~submit_defense(id).ok /\ SubmitDefenseOp(id, defense)
                   => disputes' = disputes /\ tree_challenges' = tree_challenges
          /\ \A id \in AdjudicationIdInputs, h \in Hotkeys,
                verdict \in VoteVerdictInputs, confidence \in VoteConfidenceInputs :
                ~submit_vote(id, h).ok /\ SubmitVoteOp(id, h, verdict, confidence)
                   => /\ dispute_votes' = dispute_votes
                      /\ validators' = validators
                      /\ active_disputes' = active_disputes
          /\ \A id \in DisputeIdInputs, verdict \in Verdict,
                confidence \in ConfidenceInputs :
                id \notin DOMAIN disputes /\ ResolveDisputeOp(id, verdict, confidence)
                   => disputes' = disputes /\ tree_challenges' = tree_challenges
          /\ \A hotkey \in Hotkeys, stake \in StakeInputs, tier \in TierInputs :
                stake < 100 /\ RegisterValidatorOp(hotkey, stake, tier)
                   => validators' = validators
          /\ \A challenge \in ChallengeInputs, tree \in TreeInputs :
                ValidateChallengeOp(challenge, tree) => UNCHANGED vars]_vars

\* a state in which every one of the five failures can be had: a validator has
\* voted, so that its second vote is rejected, a vote after the deadline is
\* rejected, a stake of 50 is below the scout minimum, and the dispute manager
\* knows neither the dispute nor an open challenge window
C12_Witness ==
    /\ AdjudicationId \in DOMAIN active_disputes
    /\ now > active_disputes[AdjudicationId].deadline
    /\ \E h \in DOMAIN validators :
          /\ VotesOf(dispute_votes[AdjudicationId], h) # {}
          /\ submit_vote(AdjudicationId, h).reason = "window_closed"
    /\ \E h \in Hotkeys : h \notin DOMAIN validators
    /\ 50 \in StakeInputs /\ register_tier(50, SCOUT) = None
    /\ UnknownId \notin DOMAIN disputes
    /\ ~submit_defense(UnknownId).ok
    /\ \E challenge \in ChallengeInputs, tree \in TreeInputs :
          ~validate_challenge(challenge, tree).ok

----------------------------------------------------------------------------
(* Claims about the registry and the assignment *)

\* the highest tier whose minimum stake the stake meets
HighestTier(stake) ==
    IF stake >= 2000 THEN ARBITER
    ELSE IF stake >= 500 THEN AUDITOR
    ELSE SCOUT

\* C15: register_validator with a stake below the minimum of the requested
\* tier registers the validator at the highest tier whose minimum stake
\* (scout 100, auditor 500, arbiter 2000) the stake meets, and with a stake
\* below 100 the registration fails and the registry is unchanged.
C15_RegisterDemotes ==
    [][\A hotkey \in Hotkeys, stake \in RegisterStakeInputs, tier \in ValidatorTier :
          /\ stake < TIER_CONFIG[tier].stake_required
          /\ RegisterValidatorOp(hotkey, stake, tier)
          => IF stake < 100
             THEN validators' = validators
             ELSE /\ hotkey \in DOMAIN validators'
                  /\ validators'[hotkey].stake = stake
                  /\ validators'[hotkey].tier = HighestTier(stake)]_vars

\* the lists of hotkeys an assignment could return
HotkeyLists ==
    {<<>>} \cup {<<h>> : h \in Hotkeys} \cup {<<h, g>> : h, g \in Hotkeys}

\* a validator that may be assigned: its cases of the epoch are below the cap
\* of its tier (scout 10, auditor 50, arbiter none), its calibration >= 0.5
Eligible(h) ==
    /\ h \in DOMAIN validators
    /\ \/ validators[h].tier = ARBITER
       \/ validators[h].tier = AUDITOR /\ validators[h].cases_this_epoch < 50
       \/ validators[h].tier = SCOUT /\ validators[h].cases_this_epoch < 10
    /\ validators[h].calibration_score >= 50

C17_CasesWithinCap ==
    \A h \in DOMAIN validators :
        /\ validators[h].tier = SCOUT => validators[h].cases_this_epoch <= 10
        /\ validators[h].tier = AUDITOR => validators[h].cases_this_epoch <= 50

----------------------------------------------------------------------------
(* Claims about the escalation *)

\* the arbiters able to take a case: the cap of an arbiter is unbounded
ArbitersAble == {h \in DOMAIN validators : validators[h].tier = ARBITER}

\* C18: when escalate_to_arbiters finds at least one arbiter able to take a
\* case, afterwards the assigned set of the dispute is exactly the set of
\* those arbiters, the votes are exactly the earlier votes of those arbiters,
\* in their order, the escalated flag is true, and the deadline is 6 hours
\* after the escalation instant and not earlier than the previous deadline.
C18_EscalationStep ==
    [][\A id \in DOMAIN active_disputes :
          ArbitersAble # {} /\ EscalateToArbitersOp(id) =>
             /\ SeqToSet(active_disputes'[id].assigned_validators) = ArbitersAble
             /\ Len(active_disputes'[id].assigned_validators) = Cardinality(ArbitersAble)
             /\ dispute_votes'[id] =
                   SelectSeq(dispute_votes[id],
                             LAMBDA v : v.validator_hotkey \in ArbitersAble)
             /\ active_disputes'[id].escalated = TRUE
             /\ active_disputes'[id].deadline = now + Hours(6)
             /\ active_disputes'[id].deadline >= active_disputes[id].deadline]_vars

\* a dispute was escalated at this instant: the vote a scout cast at this
\* instant is gone, the vote the arbiter cast before is kept, and the arbiter
\* alone is assigned
C18_Witness ==
    /\ AdjudicationId \in DOMAIN active_disputes
    /\ active_disputes[AdjudicationId].escalated
    /\ active_disputes[AdjudicationId].deadline = now + Hours(6)
    /\ \E a, sc \in DOMAIN validators :
          /\ validators[a].tier = ARBITER
          /\ validators[sc].tier = SCOUT
          /\ active_disputes[AdjudicationId].assigned_validators = <<a>>
          /\ VotesOf(dispute_votes[AdjudicationId], a) # {}
          /\ VotesOf(dispute_votes[AdjudicationId], sc) = {}
          /\ validators[a].last_active < now
          /\ validators[sc].tier_start_date < now
          /\ validators[sc].last_active = now
          /\ validators[sc].cases_this_epoch = 1

\* is the result the tally of the dispute with the escalated flag set
TallyEscalated(result, id) ==
    /\ result.final_verdict = calculate_consensus(id).final_verdict
    /\ result.weighted_score = calculate_consensus(id).weighted_score
    /\ result.total_weight = calculate_consensus(id).total_weight
    /\ result.participating_validators
          = calculate_consensus(id).participating_validators
    /\ result.escalated = TRUE

\* C19: when the escalation is triggered, by finalize_dispute or directly, and
\* no arbiter able to take a case is registered, the operation returns the
\* current tally of the dispute with escalated = true, and leaves the assigned
\* set, the deadline and the votes of the dispute unchanged.
C19_NoArbiters ==
    /\ [](\A id \in DOMAIN active_disputes :
            ArbitersAble = {} =>
               /\ TallyEscalated(escalate_result(id), id)
               /\ (/\ calculate_consensus(id).weighted_score < 6000
                   /\ ~active_disputes[id].escalated)
                     => TallyEscalated(finalize_result(id), id))
    /\ [][\A id \in DOMAIN active_disputes :
             /\ ArbitersAble = {}
             /\ \/ EscalateToArbitersOp(id)
                \/ /\ calculate_consensus(id).weighted_score < 6000
                   /\ ~active_disputes[id].escalated
                   /\ FinalizeDisputeOp(id)
             => /\ active_disputes' = active_disputes
                /\ dispute_votes' = dispute_votes
                /\ validators' = validators]_vars

\* two scouts voted against each other and no arbiter is registered: the
\* share is 0.5 and finalize_dispute triggers the escalation
C19_Witness ==
    /\ AdjudicationId \in DOMAIN active_disputes
    /\ ArbitersAble = {}
    /\ ~active_disputes[AdjudicationId].escalated
    /\ Len(dispute_votes[AdjudicationId]) = 2
    /\ dispute_votes[AdjudicationId][1].verdict # dispute_votes[AdjudicationId][2].verdict
    /\ calculate_consensus(AdjudicationId).weighted_score = 5000
    /\ finalize_result(AdjudicationId).escalated

\* C20: the result finalize_dispute returns for a dispute that was escalated
\* earlier and whose arbiters have voted to a share of at least 0.6 has
\* escalated = true.
C20_FinalResultEscalated ==
    \A id \in DOMAIN active_disputes :
        /\ active_disputes[id].escalated
        /\ Len(dispute_votes[id]) > 0
        /\ calculate_consensus(id).weighted_score >= 6000
        => finalize_result(id).escalated = TRUE

----------------------------------------------------------------------------
(* Claims about the tally *)

\* the sum of w[h] over the hotkeys h of S
RECURSIVE SumWeights(_, _)
SumWeights(S, w) ==
    IF S = {} THEN 0
    ELSE LET h == CHOOSE x \in S : TRUE
         IN  w[h] + SumWeights(S \ {h}, w)

\* the reference tally of the votes of a dispute: the weight of a verdict
TallyWeight(id, verdict) ==
    LET votes == votes_of(id)
        w == [h \in Voters(id) |->
                effective_weight(validators[h]) * vote_by(votes, h).confidence]
    IN  SumWeights({h \in Voters(id) : vote_by(votes, h).verdict = verdict}, w)

\* the reference tally: the total weight
TallyTotal(id) ==
    TallyWeight(id, CHALLENGE_UPHELD) + TallyWeight(id, CHALLENGE_REJECTED)
    + TallyWeight(id, PARTIAL) + TallyWeight(id, ABSTAIN)

\* C21: calculate_consensus equals the reference tally: the weight of a
\* verdict is the sum of effective_weight * confidence over its votes; with
\* a total of 0 (no votes included) the result is abstain with share 0 and
\* total weight 0; otherwise the final verdict has maximal weight and is the
\* earliest such verdict in the order upheld, rejected, partial, abstain, and
\* the reported share is its weight divided by the total.
C21_ReferenceTally ==
    \A id \in DOMAIN active_disputes :
        LET result == calculate_consensus(id)
            T == TallyTotal(id)
        IN  IF T = 0
            THEN /\ result.final_verdict = ABSTAIN
                 /\ result.weighted_score = 0
                 /\ result.total_weight = 0
            ELSE /\ result.total_weight = T
                 /\ \E i \in 1..Len(VerdictOrder) :
                       /\ result.final_verdict = VerdictOrder[i]
                       /\ \A j \in 1..Len(VerdictOrder) :
                             /\ TallyWeight(id, VerdictOrder[j])
                                  <= TallyWeight(id, VerdictOrder[i])
                             /\ j < i => TallyWeight(id, VerdictOrder[j])
                                            < TallyWeight(id, VerdictOrder[i])
                 /\ result.weighted_score
                       = share(TallyWeight(id, result.final_verdict), T)

\* two votes of equal positive weight for rejected and for partial: the tally
\* names rejected with half of the weight
C21_Witness ==
    /\ AdjudicationId \in DOMAIN active_disputes
    /\ Len(votes_of(AdjudicationId)) = 2
    /\ TallyWeight(AdjudicationId, PARTIAL) > 0
    /\ TallyWeight(AdjudicationId, PARTIAL)
          = TallyWeight(AdjudicationId, CHALLENGE_REJECTED)
    /\ calculate_consensus(AdjudicationId).final_verdict = CHALLENGE_REJECTED
    /\ calculate_consensus(AdjudicationId).weighted_score = 5000

----------------------------------------------------------------------------
(* Claims about the calibration *)

\* C22: in every reachable state the calibration score of every registered
\* validator lies in [0.3, 1.5], whatever the sequence of registrations,
\* calibration updates, decay sweeps and epoch rollovers.
C22_CalibrationInRange ==
    \A h \in DOMAIN validators :
        /\ validators[h].calibration_score >= 30
        /\ validators[h].calibration_score <= 150

\* a wrong vote of confidence 0.9 has been recorded: the mean 0.05 is stored
\* as 0.3
C22_Witness ==
    \E h \in DOMAIN validators :
        /\ Len(validators[h].verdict_history) = 1
        /\ ~validators[h].verdict_history[1].correct
        /\ validators[h].verdict_history[1].confidence = 90
        /\ validators[h].calibration_score = 30

\* C23: an update_calibration call with was_correct = true and confidence
\* 0.9 never lowers the calibration score of the validator, a freshly
\* registered validator of score 1.0 and empty history included (the case
\* n = 1 of n consecutive calls without a decay sweep in between).
C23_CorrectVotesNeverLower ==
    [][\A h \in DOMAIN validators :
          UpdateCalibrationOp(h, TRUE, 90) =>
             validators'[h].calibration_score >= validators[h].calibration_score]_vars

\* the tier one step below
OneStepDown(tier) == IF tier = ARBITER THEN AUDITOR ELSE SCOUT

\* C24 as stated: after update_calibration, a score below the floor of the
\* validator's tier drops the tier by exactly one step (arbiter to auditor,
\* auditor to scout) and resets tier_start_date; a score at or above the
\* floor leaves tier and tier_start_date unchanged.
C24_DemotionOneStep ==
    [][\A h \in DOMAIN validators, was_correct \in BOOLEAN,
          confidence \in CalibrationConfidenceInputs :
          UpdateCalibrationOp(h, was_correct, confidence) =>
             LET before == validators[h]
                 after == validators'[h]
             IN  IF after.calibration_score < TIER_CONFIG[before.tier].min_calibration
                 THEN /\ before.tier # SCOUT
                      /\ after.tier = OneStepDown(before.tier)
                      /\ after.tier_start_date = now
                 ELSE /\ after.tier = before.tier
                      /\ after.tier_start_date = before.tier_start_date]_vars

\* C24, amended: after update_calibration, a score below the floor of the
\* validator's tier resets tier_start_date and moves an arbiter to auditor
\* and an auditor to scout, while a scout stays a scout; a score at or
\* above the floor leaves tier and tier_start_date unchanged.
C24_DemotionOrReset ==
    [][\A h \in DOMAIN validators, was_correct \in BOOLEAN,
          confidence \in CalibrationConfidenceInputs :
          UpdateCalibrationOp(h, was_correct, confidence) =>
             LET before == validators[h]
                 after == validators'[h]
             IN  IF after.calibration_score < TIER_CONFIG[before.tier].min_calibration
                 THEN /\ after.tier = IF before.tier = SCOUT THEN SCOUT
                                      ELSE OneStepDown(before.tier)
                      /\ after.tier_start_date = now
                 ELSE /\ after.tier = before.tier
                      /\ after.tier_start_date = before.tier_start_date]_vars

\* a validator registered as a scout was updated later to a score below 0.5:
\* it is still a scout, and its tier_start_date is the instant of the update
C24_Witness ==
    \E h \in DOMAIN validators :
        /\ validators[h].tier = SCOUT
        /\ validators[h].stake = TIER_CONFIG[SCOUT].stake_required
        /\ validators[h].calibration_score < TIER_CONFIG[SCOUT].min_calibration
        /\ Len(validators[h].verdict_history) = 1
        /\ validators[h].tier_start_date = validators[h].verdict_history[1].timestamp
        /\ validators[h].tier_start_date > validators[h].last_active

\* C25: the decay sweep is idempotent at a fixed instant: a second
\* apply_calibration_decay (or new_epoch) at the same clock value, with no
\* vote in between, leaves every calibration score as the first run left it.
C25_DecayIdempotent ==
    LET once == apply_calibration_decay(validators)
        epoch == new_epoch(validators)
    IN  \A h \in DOMAIN validators :
           /\ apply_calibration_decay(once)[h].calibration_score
                 = once[h].calibration_score
           /\ new_epoch(epoch)[h].calibration_score = epoch[h].calibration_score

----------------------------------------------------------------------------
(* Claims about the epoch rollover *)

\* what new_epoch leaves of a validator apart from its calibration score
RolledOver(before, after) ==
    /\ after.cases_this_epoch = 0
    /\ after.tier = before.tier
    /\ after.stake = before.stake
    /\ after.verdicts_submitted = before.verdicts_submitted
    /\ after.correct_verdicts = before.correct_verdicts

\* max(0.5, calibration - 0.02 * floor(days / 7)), in 1/100
Decayed(calibration, days) == Max(50, calibration - (1 + 1) * (days \div 7))

\* C26 as stated: new_epoch sets cases_this_epoch to 0 for every validator
\* and, for each validator whose last activity is more than 7 days old, sets
\* calibration to max(0.5, calibration - 0.02 * floor(days_inactive / 7));
\* the others keep their calibration; no tier, stake or verdict counter
\* changes.
C26_NewEpochAfterSevenDays ==
    [][NewEpoch =>
          \A h \in DOMAIN validators :
              /\ RolledOver(validators[h], validators'[h])
              /\ validators'[h].calibration_score =
                    IF now - validators[h].last_active > Hours(24 * 7)
                    THEN Decayed(validators[h].calibration_score,
                                 Days(validators[h].last_active))
                    ELSE validators[h].calibration_score]_vars

\* C26, amended: new_epoch sets cases_this_epoch to 0 for every validator
\* and, for each validator whose last activity is at least 8 whole days old
\* (days_inactive, the whole days since the last activity, is above 7), sets
\* calibration to max(0.5, calibration - 0.02 * floor(days_inactive / 7));
\* the others, a validator inactive for seven and a half days included, keep
\* their calibration; no tier, stake or verdict counter changes.
C26_NewEpoch ==
    [][NewEpoch =>
          \A h \in DOMAIN validators :
              /\ RolledOver(validators[h], validators'[h])
              /\ validators'[h].calibration_score =
                    IF Days(validators[h].last_active) >= 8
                    THEN Decayed(validators[h].calibration_score,
                                 Days(validators[h].last_active))
                    ELSE validators[h].calibration_score]_vars

\* right after a rollover: a validator inactive for 14 days is at 0.96 and
\* another one, inactive for seven and a half days, is still at 1.0
C26_Witness ==
    /\ epoch_start = now
    /\ \E h, g \in DOMAIN validators :
          /\ Days(validators[h].last_active) = 14
          /\ validators[h].calibration_score = 96
          /\ validators[h].cases_this_epoch = 0
          /\ now - validators[g].last_active = Hours(24 * 7 + 12)
          /\ validators[g].calibration_score = 100
          /\ validators[g].cases_this_epoch = 0

----------------------------------------------------------------------------
(* Claims about the promotion *)

\* the conditions of the step from scout to auditor
ScoutQualifies(v) ==
    /\ v.tier = SCOUT
    /\ now - v.tier_start_date >= Hours(24 * 30)
    /\ v.calibration_score >= 70
    /\ v.verdicts_submitted >= 50
    /\ v.stake >= 500

\* the conditions of the step from auditor to arbiter
AuditorQualifies(v) ==
    /\ v.tier = AUDITOR
    /\ now - v.tier_start_date >= Hours(24 * 90)
    /\ v.calibration_score >= 85
    /\ v.verdicts_submitted >= 200
    /\ \A i \in 1..Len(v.slashing_events) :
          now - v.slashing_events[i] >= Hours(24 * 60)
    /\ v.stake >= 2000

\* C27: check_tier_promotion raises the tier of a validator by exactly one
\* step and resets tier_start_date if and only if all conditions of the step
\* hold (scout to auditor: >= 30 days in tier, calibration >= 0.7, >= 50
\* verdicts, stake >= 500; auditor to arbiter: >= 90 days in tier,
\* calibration >= 0.85, >= 200 verdicts, no slashing event in the last 60
\* days, stake >= 2000) and returns the new tier; otherwise nothing changes
\* and it returns None; no scout becomes an arbiter through one call.
C27_CheckTierPromotion ==
    [][\A hotkey \in Hotkeys :
          CheckTierPromotionOp(hotkey) =>
             IF hotkey \notin DOMAIN validators
             THEN UNCHANGED vars /\ promotion_result(hotkey) = None
             ELSE LET v == validators[hotkey]
                  IN  /\ \A h \in DOMAIN validators \ {hotkey} :
                            validators'[h] = validators[h]
                      /\ IF ScoutQualifies(v)
                         THEN /\ validators'[hotkey] =
                                    [v EXCEPT !.tier = AUDITOR,
                                              !.tier_start_date = now]
                              /\ promotion_result(hotkey) = AUDITOR
                         ELSE IF AuditorQualifies(v)
                         THEN /\ validators'[hotkey] =
                                    [v EXCEPT !.tier = ARBITER,
                                              !.tier_start_date = now]
                              /\ promotion_result(hotkey) = ARBITER
                         ELSE /\ UNCHANGED vars
                              /\ promotion_result(hotkey) = None]_vars

\* a scout with the least stake, calibration and number of verdicts of the
\* step has been promoted to auditor at this instant
C27_Witness ==
    \E h \in DOMAIN validators :
        /\ validators[h].tier = AUDITOR
        /\ validators[h].tier_start_date = now
        /\ validators[h].stake = 500
        /\ validators[h].calibration_score = 70
        /\ validators[h].verdicts_submitted = 50

----------------------------------------------------------------------------
(* Claims about the Merkle tree *)

\* the lists of at least one node
NonEmptyLists == {list \in ReasoningNodeLists : Len(list) >= 1}

\* C28: for every list of reasoning nodes with pairwise distinct ids, of any
\* length >= 1 (a single node and the odd lengths, whose last node is
\* duplicated, included), built into a new tree or into one that was built
\* before, and for every node n of the list, verify_proof(n,
\* get_proof(n.id), root) is true for the root the build returned.
C28_ProofsVerify ==
    \A list \in NonEmptyLists :
        LET built == build_from_reasoning_tree(merkle, list)
        IN  \A i \in 1..Len(list) :
               verify_proof(list[i], get_proof(built, list[i].id),
                            merkle_root(merkle, list))
                  = [raises |-> None, value |-> TRUE]

\* a tree of five nodes: the proof of the fifth node has three steps, right
\* (its own copy), right and left, and verifies
C28_Witness ==
    /\ Len(reasoning_nodes) = 5
    /\ LET n == reasoning_nodes[5]
           proof == get_proof(merkle, n.id)
       IN  /\ proof # NoProof
           /\ Len(proof[1]) = 3
           /\ proof[1][1] = <<hash_node(n), "right">>
           /\ proof[1][1 + 1][1 + 1] = "right"
           /\ proof[1][3][1 + 1] = "left"
           /\ verify_proof(n, proof, get_root(merkle)).value

\* the nodes handed to verify_proof: every id, known or not, with a claim of
\* the lists or another one
NodeInputs ==
    {[id |-> id, claim |-> claim] :
        id \in MerkleIds \cup {UnknownNodeId}, claim \in MerkleClaims \cup {"r"}}

\* the roots handed to verify_proof
RootInputs ==
    {hash_data(<<>>)} \cup (IF merkle.root = NoNode THEN {} ELSE {get_root(merkle)})

\* with a collision-free hash, a node that differs from a node n of the tree
\* in its id or its claim does not verify against the proof of n
C29_OtherNodeRejected ==
    merkle.root # NoNode =>
       \A i \in 1..Len(reasoning_nodes), other \in NodeInputs :
           other # reasoning_nodes[i] =>
              verify_proof(other, get_proof(merkle, reasoning_nodes[i].id),
                           get_root(merkle))
                 = [raises |-> None, value |-> FALSE]

\* verify_proof returns a boolean and never raises, for every node, every
\* proof that get_proof hands out and every root
C29_VerifyNeverRaises ==
    \A node \in NodeInputs, id \in MerkleIds \cup {UnknownNodeId},
       root_hash \in RootInputs :
        LET result == verify_proof(node, get_proof(merkle, id), root_hash)
        IN  result.raises = None /\ result.value \in BOOLEAN

\* C29: with a collision-free hash, for every built tree, every node n of it
\* and every node that differs from n in a hashed field, verify_proof of
\* that node with the proof of n and the root is false; and verify_proof
\* returns a boolean for every input and never raises.
C29_VerifyProof == C29_OtherNodeRejected /\ C29_VerifyNeverRaises

\* C30: get_proof of a node id that is not in the built tree returns an
\* empty list, for a tree built from any list and for a tree that was never
\* built.
C30_UnknownIdEmptyProof ==
    \A id \in MerkleIds \cup {UnknownNodeId} :
        id \notin {reasoning_nodes[i].id : i \in 1..Len(reasoning_nodes)} =>
           get_proof(merkle, id) = Some(<<>>)

-----------------------------------------------------------------------------
(* Claims about the identifiers of the disputes *)

\* C31: create_dispute allocates an identifier that no stored dispute has, so
\* that every stored dispute is left as it was; the new dispute is stored as
\* pending-defense with a defense deadline two hours after its creation, and
\* its identifier is appended to the index of its task
C31_CreateDisputeFreshId ==
    [][\/ UNCHANGED vars
       \/ \A challenge \in ChallengeInputs, tree \in TreeInputs :
             (validate_challenge(challenge, tree).ok
                 /\ HandleChallengeOp(challenge, tree)) =>
                \E id \in DOMAIN disputes' \ DOMAIN disputes :
                   /\ DOMAIN disputes' = DOMAIN disputes \cup {id}
                   /\ \A d \in DOMAIN disputes : disputes'[d] = disputes[d]
                   /\ disputes'[id].dispute_id = id
                   /\ disputes'[id].status = PENDING_DEFENSE
                   /\ disputes'[id].defense_deadline
                         = now + Hours(DEFENSE_WINDOW_HOURS)
                   /\ tree_challenges' =
                         [tree_challenges EXCEPT
                             ![tree.task_id] = Append(@, id)]]_vars

\* two disputes of one task are stored, each in the index of the task
C31_Witness ==
    \E t \in Tasks :
        /\ Len(tree_challenges[t]) = 1 + 1
        /\ tree_challenges[t][1] # tree_challenges[t][1 + 1]
        /\ \A i \in 1..Len(tree_challenges[t]) :
              tree_challenges[t][i] \in DOMAIN disputes

-----------------------------------------------------------------------------
(* Claims about the defense and the sweep *)

\* C35: a defense and the no-defense outcome exclude each other: the sweep
\* resolves only disputes that have no stored defense and stores none, and a
\* dispute that has left pending-defense (swept or resolved) never gets a
\* defense afterwards
C35_DefenseExcludesNoDefense ==
    [][/\ CheckExpiredDefenses =>
             \A d \in DOMAIN disputes :
                disputes'[d] # disputes[d] =>
                   /\ disputes[d].defense = None
                   /\ disputes'[d].defense = None
                   /\ disputes'[d].status = RESOLVED
       /\ \A d \in DOMAIN disputes :
             disputes[d].status # PENDING_DEFENSE =>
                /\ disputes'[d].defense = disputes[d].defense
                /\ disputes'[d].status # PENDING_DEFENSE]_vars

\* one dispute was resolved by the sweep and stores no defense, the other one
\* stores its defense after its deadline and has no outcome of the sweep
C35_Witness ==
    \E d, e \in DOMAIN disputes :
        /\ disputes[d] = resolve_no_defense(disputes[d])
        /\ disputes[d].defense = None
        /\ disputes[e].defense # None
        /\ disputes[e].status = PENDING_ADJUDICATION
        /\ now > disputes[e].defense_deadline

-----------------------------------------------------------------------------
(* Claims about the losses *)

\* C36: no party of a dispute loses more than it staked, whichever verdict of
\* whichever confidence in [0, 1] or the sweep resolved the dispute:
\* proposer_payout >= -proposer_stake and challenger_payout >= -challenger_stake
\* (payouts in 1/10000 of the unit of the stakes)
C36_LossWithinStake ==
    \A d \in DOMAIN disputes :
        /\ disputes[d].proposer_stake >= 0
        /\ disputes[d].challenger_stake >= 0
        /\ disputes[d].proposer_payout >= 0 - disputes[d].proposer_stake * 10000
        /\ disputes[d].challenger_payout >= 0 - disputes[d].challenger_stake * 10000

\* a rejected challenge of full confidence has cost the challenger half of
\* the stake
C36_Witness ==
    \E d \in DOMAIN disputes :
        /\ disputes[d].status = RESOLVED
        /\ disputes[d].verdict = CHALLENGE_REJECTED
        /\ disputes[d].challenger_payout = 0 - disputes[d].challenger_stake * 5000

-----------------------------------------------------------------------------
(* Claims about the decay sweep *)

\* C37: the decay sweep never increases a calibration score: after
\* apply_calibration_decay every validator has a score at most the one it had
\* before, also when that one was below 0.5
C37_DecayNeverIncreases ==
    [][ApplyCalibrationDecay =>
          \A h \in DOMAIN validators :
             validators'[h].calibration_score <= validators[h].calibration_score]_vars

-----------------------------------------------------------------------------
(* Claims about the votes of the disputes in flight *)

\* C33: for every dispute in flight, before and after its escalation, each
\* vote of its vote set was cast by a validator of its current assigned set,
\* and no validator has more than one vote in the set
C33_VotesOfAssignedOnce ==
    \A id \in DOMAIN active_disputes :
        LET votes == votes_of(id)
        IN  /\ \A i \in 1..Len(votes) :
                  InSeq(votes[i].validator_hotkey,
                        active_disputes[id].assigned_validators)
            /\ \A i, j \in 1..Len(votes) :
                  votes[i].validator_hotkey = votes[j].validator_hotkey => i = j

\* an escalated dispute whose panel is smaller than the set of validators that
\* had voted: one vote was kept, and the other validator is registered
C33_Witness ==
    \E id \in DOMAIN active_disputes :
        /\ active_disputes[id].escalated
        /\ Len(votes_of(id)) = 1
        /\ Len(active_disputes[id].assigned_validators) = 1
        /\ Cardinality(DOMAIN validators) = 1 + 1

-----------------------------------------------------------------------------
(* Claims about a dispute whose record was cleared *)

\* the dispute was assigned once and finalize_dispute has cleared its record
Cleared(id) == id \in DOMAIN dispute_votes /\ id \notin DOMAIN active_disputes

\* C38: once finalize_dispute has cleared the record of a dispute, and until
\* assign_dispute is called again for the id, every submit_vote for it is
\* rejected, calculate_consensus and finalize_dispute return no result, and no
\* calibration update is applied: its votes and the verdict counters and
\* histories of the validators stay as they are
C38_ClearedDisputeIsClosed ==
    /\ [](\A id \in AdjudicationIdInputs :
            Cleared(id) =>
               /\ \A h \in Hotkeys : ~submit_vote(id, h).ok
               /\ calculate_consensus(id) = NoResult
               /\ finalize_result(id) = NoResult)
    /\ [][\A id \in AdjudicationIdInputs :
            (Cleared(id) /\ id \notin DOMAIN active_disputes') =>
               /\ dispute_votes'[id] = dispute_votes[id]
               /\ \A h \in DOMAIN validators :
                     /\ validators'[h].verdicts_submitted
                           = validators[h].verdicts_submitted
                     /\ validators'[h].verdict_history
                           = validators[h].verdict_history
                     /\ validators'[h].calibration_score
                           = validators[h].calibration_score]_vars

\* a cleared dispute that keeps the vote of a validator whose calibration was
\* updated for it
C38_Witness ==
    \E id \in AdjudicationIdInputs :
        /\ Cleared(id)
        /\ Len(dispute_votes[id]) > 0
        /\ \E h \in DOMAIN validators :
              /\ validators[h].verdicts_submitted = 1
              /\ dispute_votes[id][1].validator_hotkey = h

-----------------------------------------------------------------------------
(* Claims about the verdict counters *)

\* the number of votes of a validator in a list of votes
VotesBy(votes, h) ==
    Cardinality({i \in 1..Len(votes) : votes[i].validator_hotkey = h})

\* C39: every validator has correct_verdicts <= verdicts_submitted, and each
\* accepted vote contributes at most one calibration update however often
\* finalize_dispute is called: a verdict counter changes only in the step
\* that clears the record of a dispute in which the validator has exactly one
\* vote, and then by one, with one more entry of the history
C39_OneUpdatePerVote ==
    /\ [](\A h \in DOMAIN validators :
            /\ validators[h].correct_verdicts <= validators[h].verdicts_submitted
            /\ Len(validators[h].verdict_history) = validators[h].verdicts_submitted)
    /\ [][\A h \in DOMAIN validators :
            validators'[h].verdicts_submitted # validators[h].verdicts_submitted =>
               /\ validators'[h].verdicts_submitted
                     = validators[h].verdicts_submitted + 1
               /\ Len(validators'[h].verdict_history)
                     = Len(validators[h].verdict_history) + 1
               /\ \E id \in DOMAIN active_disputes :
                     /\ id \notin DOMAIN active_disputes'
                     /\ VotesBy(votes_of(id), h) = 1]_vars

\* the dispute was escalated and then cleared: of the two validators that had
\* voted, the one on the panel has one update, the other one has none
C39_Witness ==
    \E id \in AdjudicationIdInputs, h, g \in DOMAIN validators :
        /\ Cleared(id)
        /\ escalation_steps[id] = 1
        /\ validators[h].verdicts_submitted = 1
        /\ validators[g].verdicts_submitted = 0
        /\ validators[g].last_active > validators[g].tier_start_date

-----------------------------------------------------------------------------
(* Claims about the Merkle roots *)

\* C40: with a collision-free hash build_from_reasoning_tree is injective on
\* the non-empty lists of leaves: when the tree is built from a list other
\* than the one it was built from before, a longer one with the last leaf
\* repeated included, the root is another one
C40_RootsInjective ==
    [][(/\ Len(reasoning_nodes) > 0
        /\ Len(reasoning_nodes') > 0
        /\ reasoning_nodes' # reasoning_nodes)
          => get_root(merkle') # get_root(merkle)]_vars

-----------------------------------------------------------------------------
(* Claims about the finalize loop of the neuron *)

\* C32: under weak fairness of the finalize loop every dispute that reaches
\* pending-adjudication is eventually resolved
C32_EventuallyResolved ==
    \A id \in {AdjudicationId} :
        (id \in DOMAIN disputes /\ disputes[id].status = PENDING_ADJUDICATION)
            ~> (disputes[id].status = RESOLVED)

\* C34: a dispute that the finalize loop has resolved has a verdict among
\* challenge-upheld, challenge-rejected and partial, never abstain, whatever
\* the assigned validators vote
C34_NeverResolvedAbstain ==
    \A id \in DOMAIN disputes :
        disputes[id].status = RESOLVED =>
           disputes[id].verdict \in {CHALLENGE_UPHELD, CHALLENGE_REJECTED, PARTIAL}

====
